---- MODULE Spec2Model ----
(***************************************************************************)
(* A model of the indexing and persistence engine of the vector database:  *)
(* the HNSW dense index with versioned nodes and transactions, the node    *)
(* serializer, the sparse inverted index (4-ary dimension trie) and the    *)
(* LRU node cache.  Each subsystem has its own specification; the          *)
(* variables of the other subsystems stay at their initial values.         *)
(***************************************************************************)
EXTENDS Integers, Sequences, FiniteSets, TLC

(***************************************************************************)
(* Bounds of the model.                                                    *)
(***************************************************************************)
\* writes (dense and sparse uploads) one behaviour of the index API performs
MaxUploads == 2
\* uploads of the long run that fills a neighbour list
MaxFill == 12
\* the first uploads of the long run, whose value and level vary
FillBranch == 2
\* uploads that build the graphs traverse_find_nearest is called on
MaxGraph == 5
\* the upload of the long run from which a transaction may be opened
FillTxnAt == 10
\* inserts into the sparse index
MaxSparseInserts == 3
\* threads calling the LRU cache
LruThreads == 2
\* calls made on the LRU cache
MaxLruOps == 5
\* keys of the LRU cache
MaxLruKeys == 6
\* the largest capacity of the LRU cache
MaxLruCapacity == 2
\* bits of the global counter of the LRU cache, which has 32
CounterBits == 3
\* transactions one behaviour of the index API creates
MaxTxns == 2
\* the largest HNSW level of the modelled index (max_cache_level)
MaxCacheLevel == 1
\* bits of a byte of the raw-embedding log; a u32 is four bytes
ByteBits == 2
\* the records written to one raw-embedding log
MaxRecords == 18

(***************************************************************************)
(* Program constants.                                                      *)
(***************************************************************************)
\* neighbor_list.truncate(20)
NeighborCap == 20
\* nn.into_iter().take(5)
NearestCap == 5
\* let full_hops = 30
FullHops == 30
\* u32::MAX, the placeholder no offset in the modelled files ever equals
U32Max == "u32::MAX"
\* VectorId::Int(-1), the id of the skeleton nodes' prop
SkeletonId == -1

NoRef == 0
None == <<>>

Max2(a, b) == IF a >= b THEN a ELSE b
Min2(a, b) == IF a <= b THEN a ELSE b

SetMax(S) == CHOOSE x \in S : \A y \in S : y <= x

RECURSIVE SeqSum(_)
SeqSum(s) == IF s = <<>> THEN 0 ELSE Head(s) + SeqSum(Tail(s))

Range(s) == {s[i] : i \in 1..Len(s)}

(***************************************************************************)
(* Ordered collections: stable sort by descending metric, truncation,      *)
(* identity sets.                                                          *)
(***************************************************************************)
Take(s, k) == SubSeq(s, 1, Min2(k, Len(s)))

\* the entries of s at the positions in keep, in order
KeepAt(s, keep) ==
    LET kept == SelectSeq([i \in 1..Len(s) |-> i], LAMBDA i : i \in keep)
    IN [k \in 1..Len(kept) |-> s[kept[k]]]

\* Vec::sort_by(|a, b| b.1.partial_cmp(&a.1)): stable, best metric first
SortDesc(s) ==
    LET tagged == [i \in 1..Len(s) |-> [i |-> i, e |-> s[i]]]
        sorted == SortSeq(tagged, LAMBDA a, b :
                            \/ a.e.m > b.e.m
                            \/ a.e.m = b.e.m /\ a.i < b.i)
    IN [k \in 1..Len(s) |-> sorted[k].e]

\* IdentitySet::from_iter: one entry per node, the first one kept
IdentitySet(s) ==
    KeepAt(s, {i \in 1..Len(s) : \A j \in 1..(i - 1) : s[j].n # s[i].n})

\* EagerLazyItemSet::insert
SetInsert(s, x) == IF \E i \in 1..Len(s) : s[i].n = x.n THEN s ELSE Append(s, x)

(***************************************************************************)
(* Lazy items and their version chains.                                    *)
(***************************************************************************)
NoOffset == -1

\* create_node_extract_neighbours with the parent left out
OrphanNode(version, hnsw_level, prop, parent) ==
    [hnsw_level |-> hnsw_level, version |-> version, prop |-> prop,
     parent |-> NoRef, child |-> NoRef, neighbors |-> <<>>,
     versions |-> <<>>, offset |-> NoOffset]

\* LazyItem::from_data(version, MergedNode {..}) of create_node_extract_neighbours
create_node_extract_neighbours(version, hnsw_level, prop, parent) ==
    [hnsw_level |-> hnsw_level, version |-> version, prop |-> prop,
     parent |-> parent, child |-> NoRef, neighbors |-> <<>>,
     versions |-> <<>>, offset |-> NoOffset]

\* the ref a new LazyItem gets
NewRef(ns) == IF DOMAIN ns = {} THEN 1 ELSE SetMax(DOMAIN ns) + 1

AddNode(ns, r, nd) == (r :> nd) @@ ns

\* LazyItem::get_latest_version: the newest head of the version chain
RECURSIVE get_latest_version(_, _)
get_latest_version(ns, r) ==
    LET vs == ns[r].versions
    IN IF vs = <<>> THEN r ELSE get_latest_version(ns, vs[Len(vs)].n)

\* LazyItem::get_version: the item itself when it is of that version, else the
\* item of that version in its chain, else NoRef
RECURSIVE get_version(_, _, _)
get_version(ns, r, vn) ==
    IF ns[r].version = vn THEN r
    ELSE IF vn < ns[r].version THEN NoRef
    ELSE LET vs == ns[r].versions
             hits == {i \in 1..Len(vs) : get_version(ns, vs[i].n, vn) # NoRef}
         IN IF hits = {} THEN NoRef
            ELSE get_version(ns, vs[CHOOSE i \in hits : \A j \in hits : i <= j].n, vn)

\* LazyItem::add_version: the chain of r gets the new item, newest last
add_version(ns, r, vn, new) ==
    [ns EXCEPT ![r].versions = Append(@, [v |-> vn, n |-> new])]

(***************************************************************************)
(* Distance and the hop budget.                                            *)
(***************************************************************************)
\* DistanceFunction::calculate (dot product): larger is better
Metric(a, b) == a * b

\* tapered_total_hops: the budget shrinks on the lower half of the levels
tapered_total_hops(hops, cur_level, max_level) ==
    IF 2 * cur_level > max_level THEN hops ELSE hops \div 2

(***************************************************************************)
(* traverse_find_nearest                                                   *)
(***************************************************************************)
\* nn.retain(..): entries whose prop is Ready, the first of each VectorId
RetainFirstById(ns, ps, s) ==
    LET P(i) == ps[ns[s[i].n].prop]
    IN KeepAt(s, {i \in 1..Len(s) :
                     /\ P(i).state = "Ready"
                     /\ \A j \in 1..(i - 1) :
                           P(j).state = "Ready" => P(j).id # P(i).id})

\* lines 916-939 with the sort left out: de-duplicate, take 5
NearestUnsorted(ns, ps, tasks) == Take(RetainFirstById(ns, ps, tasks), NearestCap)

\* lines 916-939: flatten, sort, de-duplicate, take 5
NearestOf(ns, ps, tasks) == Take(RetainFirstById(ns, ps, SortDesc(tasks)), NearestCap)

\* traverse_find_nearest calls itself, once per hop.  The calls in progress
\* are kept as a stack of frames, the innermost last: the neighbours a call
\* loops over, the index its loop is at, its hops and the (node, distance)
\* pairs its tasks have returned so far.  skipm, which the calls hand on to
\* each other, is kept beside the stack, with the error that ends them all
\* and the result of the outermost call.
Frame(ns, vtm, hops) ==
    [nbrs |-> ns[get_latest_version(ns, vtm)].neighbors, index |-> 0,
     hops |-> hops, tasks |-> <<>>]

\* one step of the calls in progress: the iteration the innermost call is at
\* (lines 863-914), or its return when its loop is over (lines 916-939), which
\* hands its nearest to the iteration of the caller that awaits them
TraverseStep(ns, ps, fvec, cur_level, skip_hop, m) ==
    LET depth == Len(m.stack)
        top == m.stack[depth]
        nn == NearestOf(ns, ps, top.tasks)
        caller == m.stack[depth - 1]
        awaited == caller.nbrs[caller.index + 1].n
        nref == top.nbrs[top.index + 1].n
        node_prop == ps[ns[nref].prop]
        dist == Metric(fvec, node_prop.value)
        skipm1 == m.skipm \cup {node_prop.id}
        next == [top EXCEPT !.index = @ + 1]
    IN CASE m.stack = <<>> -> m
         [] top.index >= Len(top.nbrs) /\ depth = 1 ->
              [m EXCEPT !.stack = <<>>, !.nn = nn]
         [] top.index >= Len(top.nbrs) ->
              [m EXCEPT !.stack = Append(SubSeq(@, 1, depth - 2),
                   [caller EXCEPT
                      !.index = @ + 1,
                      !.tasks = @ \o nn \o
                                <<[n |-> awaited,
                                   m |-> Metric(fvec, ps[ns[awaited].prop].value)]>>])]
         [] node_prop.state = "Pending" ->
              [m EXCEPT !.err = TRUE, !.stack = <<>>, !.nn = <<>>]
         [] top.index % 2 # 0 /\ skip_hop /\ top.index > 4 ->
              [m EXCEPT !.stack[depth] = next]
         [] node_prop.id \in m.skipm ->
              [m EXCEPT !.stack[depth] = next]
         [] top.hops > tapered_total_hops(FullHops, cur_level, MaxCacheLevel) ->
              [m EXCEPT !.skipm = skipm1,
                        !.stack[depth] =
                            [next EXCEPT !.tasks = @ \o <<[n |-> nref, m |-> dist]>>]]
         [] OTHER ->
              [m EXCEPT !.skipm = skipm1,
                        !.stack = Append(@, Frame(ns, nref, top.hops + 1))]

\* 2^k steps, unless the outermost call returns before
RECURSIVE TraverseSteps(_, _, _, _, _, _, _)
TraverseSteps(ns, ps, fvec, cur_level, skip_hop, m, k) ==
    IF k = 0 THEN TraverseStep(ns, ps, fvec, cur_level, skip_hop, m)
    ELSE LET r == TraverseSteps(ns, ps, fvec, cur_level, skip_hop, m, k - 1)
         IN IF r.stack = <<>> THEN r
            ELSE TraverseSteps(ns, ps, fvec, cur_level, skip_hop, r, k - 1)

\* the steps up to the return of the outermost call, in runs of 2^k, 2^(k+1),
\* ... steps
RECURSIVE TraverseRun(_, _, _, _, _, _, _)
TraverseRun(ns, ps, fvec, cur_level, skip_hop, m, k) ==
    LET r == TraverseSteps(ns, ps, fvec, cur_level, skip_hop, m, k)
    IN IF r.stack = <<>> THEN r
       ELSE TraverseRun(ns, ps, fvec, cur_level, skip_hop, r, k + 1)

\* lines 846-940
traverse_find_nearest(ns, ps, vtm, fvec, hops, skipm, cur_level, skip_hop) ==
    LET r == TraverseRun(ns, ps, fvec, cur_level, skip_hop,
                         [stack |-> <<Frame(ns, vtm, hops)>>, skipm |-> skipm,
                          err |-> FALSE, nn |-> <<>>], 0)
    IN [err |-> r.err, skipm |-> r.skipm, nn |-> r.nn]

(***************************************************************************)
(* Insertion into the graph.  The operators thread the record              *)
(*   st = [nodes, props, prop_file, exec_queue, err]                       *)
(***************************************************************************)
\* write_prop_to_file: the prop is appended to prop.data; (offset, length)
write_prop_to_file(pf, prop) ==
    LET words == <<prop.id, prop.value>>
    IN [file |-> pf \o words, location |-> <<Len(pf), Len(words)>>]

\* lines 636-700: the Ready prop is written to the prop file and its location
\* set, then the node is pushed onto exec_queue_nodes
queue_node_prop_exec(st, lznode) ==
    LET p == st.nodes[lznode].prop
        w == write_prop_to_file(st.prop_file, st.props[p])
    IN IF st.props[p].state # "Ready"
       THEN [st EXCEPT !.err = "Node prop is not ready"]
       ELSE [st EXCEPT !.props[p].location = w.location,
                       !.prop_file = w.file,
                       !.exec_queue = Append(@, lznode)]

\* lines 820-837 with another cut-off: the edge list is not truncated
UntruncatedEdges(neighbor_list, node, dist) ==
    IdentitySet(SortDesc(Append(neighbor_list, [n |-> node, m |-> dist])))

\* lines 820-836 with the sort left out
UnsortedEdges(neighbor_list, node, dist) ==
    IdentitySet(Take(Append(neighbor_list, [n |-> node, m |-> dist]), NeighborCap))

\* lines 820-836: the neighbour's edges plus the new node, best first, top 20
NewEdges(neighbor_list, node, dist) ==
    IdentitySet(Take(SortDesc(Append(neighbor_list, [n |-> node, m |-> dist])),
                     NeighborCap))

\* lines 796-818 with the fork left out: the old version itself is rewired
InPlaceTarget(st, nbr1, cur_level, version) ==
    [st |-> st, new_neighbor |-> nbr1, neighbor_list |-> st.nodes[nbr1].neighbors]

\* lines 782-818: the version of nbr1 the new edge goes to.  An item of this
\* version is reused; otherwise nbr1 is forked (prop and parent shared, no
\* child), the fork added to its chain and pushed onto exec_queue_nodes
ForkTarget(st, nbr1, cur_level, version) ==
    LET existing == get_version(st.nodes, nbr1, version)
        old_neighbour == st.nodes[nbr1]
        f == NewRef(st.nodes)
        fork == create_node_extract_neighbours(version, cur_level,
                                               old_neighbour.prop, old_neighbour.parent)
    IN IF existing # NoRef
       THEN [st |-> st, new_neighbor |-> existing,
             neighbor_list |-> st.nodes[existing].neighbors]
       ELSE [st |-> [st EXCEPT !.nodes = add_version(AddNode(st.nodes, f, fork),
                                                      nbr1, version, f),
                               !.exec_queue = Append(@, f)],
             new_neighbor |-> f,
             neighbor_list |-> old_neighbour.neighbors]

\* one iteration of the loop of lines 776-839
WireNeighbour(st, node, nbr1, dist, cur_level, version) ==
    LET t == ForkTarget(st, nbr1, cur_level, version)
        edges == NewEdges(t.neighbor_list, node, dist)
    IN [t.st EXCEPT
          !.nodes[t.new_neighbor].neighbors = edges,
          !.nodes[node].neighbors = SetInsert(@, [n |-> t.new_neighbor, m |-> dist])]

RECURSIVE WireNeighbours(_, _, _, _, _)
WireNeighbours(st, node, nbs, cur_level, version) ==
    IF nbs = <<>> THEN st
    ELSE WireNeighbours(WireNeighbour(st, node, Head(nbs).n, Head(nbs).m,
                                      cur_level, version),
                        node, Tail(nbs), cur_level, version)

\* lines 747-844
insert_node_create_edges(st, parent, fvec, hs, nbs, cur_level, version) ==
    LET p == Len(st.props) + 1
        prop == [id |-> hs, value |-> fvec, location |-> None, state |-> "Ready"]
        node == NewRef(st.nodes)
        nd == create_node_extract_neighbours(version, cur_level, p, parent)
        s1 == [st EXCEPT !.props = Append(@, prop),
                         !.nodes = AddNode(@, node, nd)]
        s2 == IF parent # NoRef THEN [s1 EXCEPT !.nodes[parent].child = node] ELSE s1
        s3 == WireNeighbours(s2, node, nbs, cur_level, version)
    IN [st |-> queue_node_prop_exec(s3, node), node |-> node]

\* lines 547-634: one level of the descent, then the levels below
RECURSIVE index_embedding(_, _, _, _, _, _, _, _)
index_embedding(st, parent, hash_vec, fvec, cur_entry, cur_level, max_insert_level, version) ==
    LET cur_node == st.nodes[get_latest_version(st.nodes, cur_entry)]
        node_prop == st.props[cur_node.prop]
        t == traverse_find_nearest(st.nodes, st.props, cur_entry, fvec, 0,
                                   {hash_vec}, cur_level, TRUE)
        dist == Metric(fvec, node_prop.value)
        z == IF t.nn = <<>> THEN <<[n |-> cur_entry, m |-> dist]>> ELSE t.nn
        ins == IF cur_level <= max_insert_level
               THEN insert_node_create_edges(st, parent, fvec, hash_vec, z,
                                             cur_level, version)
               ELSE [st |-> st, node |-> NoRef]
    IN IF st.err # "" THEN st
       ELSE IF node_prop.state = "Pending"
       THEN [st EXCEPT !.err = "Node prop is in pending state"]
       ELSE IF t.err THEN [st EXCEPT !.err = "Neighbor prop is in pending state"]
       ELSE IF cur_level # 0
       THEN index_embedding(ins.st, ins.node, hash_vec, fvec, z[1].n,
                            cur_level - 1, max_insert_level, version)
       ELSE ins.st

(***************************************************************************)
(* The node serializer.  The index file maps the byte offset of a field to *)
(* the value written there; the operators thread the record                *)
(*   ss = [file, pos, nodes, err]  (pos: the writer's stream position)     *)
(***************************************************************************)
Put(f, pos, v) == (pos :> v) @@ f

\* Hash of a version: the id the version control gives a version number
version_hash(version) == version

\* bit0 = parent present, bit1 = child present (lines 44-53)
Indicator(parent_present, child_present) ==
    (IF parent_present THEN 1 ELSE 0) + (IF child_present THEN 2 ELSE 0)

RECURSIVE SerializeNode(_, _, _)
RECURSIVE SerializeRef(_, _, _)
RECURSIVE SerializeItems(_, _, _, _, _)

\* LazyItemRef::serialize: an item that has a file offset is not written
\* again; a new one gets the current position and is written there
SerializeRef(ss, ps, r) ==
    IF ss.err THEN [ss |-> ss, off |-> 0]
    ELSE IF ss.nodes[r].offset # NoOffset
    THEN [ss |-> ss, off |-> ss.nodes[r].offset]
    ELSE SerializeNode([ss EXCEPT !.nodes[r].offset = ss.pos], ps, r)

\* the items lo..hi of a neighbour set in order, each written unless it has
\* an offset
SerializeItems(ss, ps, nbrs, lo, hi) ==
    IF ss.err \/ lo > hi THEN ss
    ELSE IF lo = hi THEN SerializeRef(ss, ps, nbrs[lo].n).ss
    ELSE SerializeItems(SerializeItems(ss, ps, nbrs, lo, (lo + hi) \div 2),
                        ps, nbrs, (lo + hi) \div 2 + 1, hi)

\* the entries of a neighbour set as written: metric, offset, version
NeighborWords(file, ns, nbrs, pos) ==
    LET Entry(p) == nbrs[(p - pos) \div 12 + 1]
        words == [p \in {pos + 12 * (i - 1) + d : i \in 1..Len(nbrs), d \in {0, 4, 8}} |->
                    CASE (p - pos) % 12 = 0 -> Entry(p).m
                      [] (p - pos) % 12 = 4 -> ns[Entry(p).n].offset
                      [] OTHER -> version_hash(ns[Entry(p).n].version)]
    IN words @@ file

\* EagerLazyItemSet::serialize: the items, then the count and the entries
SerializeNeighbors(ss, ps, nbrs) ==
    LET s1 == SerializeItems(ss, ps, nbrs, 1, Len(nbrs))
        at == s1.pos
        f1 == NeighborWords(Put(s1.file, at, Len(nbrs)), s1.nodes, nbrs, at + 4)
    IN IF s1.err THEN [ss |-> s1, off |-> 0]
       ELSE [ss |-> [s1 EXCEPT !.file = f1, !.pos = at + 4 + 12 * Len(nbrs)],
             off |-> at]

\* MergedNode::serialize (node.rs lines 16-117)
SerializeNode(ss, ps, r) ==
    LET node == ss.nodes[r]
        start_offset == ss.pos
        prop == ps[node.prop]
        parent_present == node.parent # NoRef
        child_present == node.child # NoRef
        parent_placeholder == start_offset + 10
        child_placeholder == parent_placeholder + (IF parent_present THEN 8 ELSE 0)
        neighbors_placeholder == child_placeholder + (IF child_present THEN 8 ELSE 0)
        f0 == Put(ss.file, start_offset, node.hnsw_level)
        f1 == Put(Put(f0, start_offset + 1, prop.location[1]),
                  start_offset + 5, prop.location[2])
        f2 == Put(f1, start_offset + 9, Indicator(parent_present, child_present))
        f3 == IF parent_present
              THEN Put(Put(f2, parent_placeholder, 0), parent_placeholder + 4, 0)
              ELSE f2
        f4 == IF child_present
              THEN Put(Put(f3, child_placeholder, 0), child_placeholder + 4, 0)
              ELSE f3
        f5 == Put(f4, neighbors_placeholder, U32Max)
        s1 == [ss EXCEPT !.file = f5, !.pos = neighbors_placeholder + 4]
        a == IF parent_present THEN SerializeRef(s1, ps, node.parent)
             ELSE [ss |-> s1, off |-> 0]
        b == IF child_present THEN SerializeRef(a.ss, ps, node.child)
             ELSE [ss |-> a.ss, off |-> 0]
        c == SerializeNeighbors(b.ss, ps, node.neighbors)
        end_pos == c.ss.pos
        g1 == IF parent_present
              THEN Put(Put(c.ss.file, parent_placeholder, a.off),
                       parent_placeholder + 4, version_hash(c.ss.nodes[node.parent].version))
              ELSE c.ss.file
        g2 == IF child_present
              THEN Put(Put(g1, child_placeholder, b.off),
                       child_placeholder + 4, version_hash(c.ss.nodes[node.child].version))
              ELSE g1
        g3 == Put(g2, neighbors_placeholder, c.off)
    IN IF prop.state = "Ready" /\ prop.location = None
       THEN \* "Ready PropState with no location": only the level byte is written
            [ss |-> [ss EXCEPT !.file = f0, !.pos = start_offset + 1, !.err = TRUE],
             off |-> start_offset]
       ELSE IF c.ss.err THEN [ss |-> c.ss, off |-> start_offset]
       ELSE [ss |-> [c.ss EXCEPT !.file = g3, !.pos = end_pos], off |-> start_offset]

\* persist_node_update_loc: a node that has no file offset yet is written at
\* the end of the index file and its offset recorded
persist_node_update_loc(ss, ps, r) == SerializeRef(ss, ps, r).ss

\* the nodes lo..hi of the queue in order; the first error ends the loop
RECURSIVE PersistAll(_, _, _, _, _)
PersistAll(ss, ps, queue, lo, hi) ==
    IF ss.err \/ lo > hi THEN ss
    ELSE IF lo = hi THEN persist_node_update_loc(ss, ps, queue[lo])
    ELSE PersistAll(PersistAll(ss, ps, queue, lo, (lo + hi) \div 2),
                    ps, queue, (lo + hi) \div 2 + 1, hi)

\* MergedNode::deserialize (node.rs lines 119-213): the header at offset; the
\* prop comes back Pending, parent and child as file indexes to load later
deserialize(file, offset) ==
    LET indicator == file[offset + 9]
        parent_present == indicator % 2 # 0
        child_present == (indicator \div 2) % 2 # 0
        parent_at == offset + 10
        child_at == parent_at + (IF parent_present THEN 8 ELSE 0)
        neighbors_at == child_at + (IF child_present THEN 8 ELSE 0)
    IN [hnsw_level |-> file[offset],
        prop |-> [state |-> "Pending", location |-> <<file[offset + 1], file[offset + 5]>>],
        parent |-> IF parent_present
                   THEN [offset |-> file[parent_at], version |-> file[parent_at + 4]]
                   ELSE None,
        child |-> IF child_present
                  THEN [offset |-> file[child_at], version |-> file[child_at + 4]]
                  ELSE None,
        neighbors_offset |-> file[neighbors_at]]

\* the id of the prop stored at a location of the prop file
PropIdAt(pf, location) == pf[location[1] + 1]

(***************************************************************************)
(* The sparse inverted index (storage/inverted_index_new_ds.rs).  The trie *)
(* maps the path of child indices from the root to the node found there.   *)
(* A value is the rational n / ValueDen, kept as its numerator n.          *)
(***************************************************************************)
\* line 17
POWERS_OF_4 == <<1, 4, 16, 64, 256, 1024, 4096, 16384>>

\* line 50: the number of posting lists of a node
BucketCount == 63

\* the table searched from its first entry (without rev)
first_power_of_4_below(n) ==
    LET i == CHOOSE k \in 1..Len(POWERS_OF_4) :
                 POWERS_OF_4[k] <= n /\ \A j \in 1..(k - 1) : POWERS_OF_4[j] > n
    IN <<i - 1, POWERS_OF_4[i]>>

\* lines 21-29: the index (from 0) and value of the largest entry <= n
largest_power_of_4_below(n) ==
    LET i == SetMax({k \in 1..Len(POWERS_OF_4) : POWERS_OF_4[k] <= n})
    IN <<i - 1, POWERS_OF_4[i]>>

RECURSIVE PathOf(_)
PathOf(remaining) ==
    IF remaining <= 0 THEN <<>>
    ELSE LET p == largest_power_of_4_below(remaining)
         IN <<p[1]>> \o PathOf(remaining - p[2])

\* lines 33-44
calculate_path(target_dim_index, current_dim_index) ==
    PathOf(target_dim_index - current_dim_index)

\* lines 54-62
InvertedIndexNewDSNode(dim_index, implicit) ==
    [dim_index |-> dim_index, implicit |-> implicit,
     data |-> [b \in 0..(BucketCount - 1) |-> {}]]

\* lines 67-89: every missing node along the path is created, with the
\* dimension of its parent plus the power of 4 of its slot
RECURSIVE find_or_create_node(_, _, _)
find_or_create_node(trie, at, path) ==
    IF path = <<>> THEN [trie |-> trie, node |-> at]
    ELSE LET child == Append(at, Head(path))
             new_dim_index == trie[at].dim_index + POWERS_OF_4[Head(path) + 1]
             t == IF child \in DOMAIN trie THEN trie
                  ELSE (child :> InvertedIndexNewDSNode(new_dim_index, TRUE)) @@ trie
         IN find_or_create_node(t, child, Tail(path))

\* the denominator of the modelled values
ValueDen == 2

\* lines 91-93: value * 63 clamped to [0, 63], truncated by `as u8`
quantize(value) ==
    LET scaled == value * 63
        clamped == IF scaled < 0 THEN 0
                   ELSE IF scaled > 63 * ValueDen THEN 63 * ValueDen ELSE scaled
    IN Min2(clamped \div ValueDen, 63)

\* lines 95-103: data.get_mut(q) is None for q = 63, and nothing is stored
NodeInsert(trie, at, value, vector_id) ==
    LET quantized_value == quantize(value)
    IN IF quantized_value \in DOMAIN trie[at].data
       THEN [trie EXCEPT ![at].data[quantized_value] = @ \cup {vector_id}]
       ELSE trie

\* lines 116-136: the first bucket holding the id, None without the node
get_value(trie, path, vector_id) ==
    IF path \notin DOMAIN trie THEN None
    ELSE LET hits == {b \in DOMAIN trie[path].data : vector_id \in trie[path].data[b]}
         IN IF hits = {} THEN None
            ELSE <<CHOOSE b \in hits : \A c \in hits : b <= c>>

\* lines 107-110 and 173-177
SparseGet(trie, dim_index, vector_id) ==
    get_value(trie, calculate_path(dim_index, trie[<<>>].dim_index), vector_id)

\* lines 180-189
SparseInsert(trie, dim_index, value, vector_id) ==
    LET path == calculate_path(dim_index, trie[<<>>].dim_index)
        f == find_or_create_node(trie, <<>>, path)
    IN NodeInsert(f.trie, f.node, value, vector_id)

\* lines 191-199: the entries with a non-zero value are inserted
RECURSIVE add_sparse_vector(_, _, _)
add_sparse_vector(trie, vector_id, entries) ==
    IF entries = <<>> THEN trie
    ELSE add_sparse_vector(
            IF Head(entries)[2] # 0
            THEN SparseInsert(trie, Head(entries)[1], Head(entries)[2], vector_id)
            ELSE trie,
            vector_id, Tail(entries))

(***************************************************************************)
(* State.                                                                  *)
(***************************************************************************)
VARIABLES
    \* ---- dense index (VectorStore / DenseIndex) ----
    nodes,          \* ref -> MergedNode (a LazyItem with its version chain)
    props,          \* prop ref -> NodeProp, shared by a node and its forks
    prop_file,      \* prop.data: the words appended by write_prop_to_file
    index_file,     \* the index file: byte offset -> field written there
    index_pos,      \* the writer's stream position in the index file
    root_vec,       \* ref of the index root
    exec_queue,     \* exec_queue_nodes: refs awaiting persistence
    current_version,           \* index -> [branch, version]
    current_open_transaction,  \* index -> None or <<transaction>>
    \* ---- the API's observable history ----
    resp,           \* the last response
    uploads,        \* number of uploads (run_upload*) executed so far
    budget,         \* number of uploads the run goes on for
    txns,           \* number of transactions created so far
    open_txns,      \* index -> ids of transactions created and not yet ended
    refused,        \* the bare writes refused so far for an open transaction
    snap,           \* what was visible when the open dense transaction began
    \* ---- sparse index (InvertedIndexSparseAnnNewDS) ----
    sparse_root,    \* the trie: path -> node
    sparse_last,    \* the last insert made: <<dim_index, value, vector_id>>
    \* ---- the LRU cache (LRUCache) and the threads calling it ----
    lru_map,        \* map: key -> [v, counter], the value and its stamp
    lru_counter,    \* counter: the global counter
    lru_capacity,   \* capacity
    lru_pc,         \* thread -> where it is in its call
    lru_loc,        \* thread -> the call and its locals
    lru_hist,       \* what the calls made so far have done
    \* ---- functions called on their own ----
    call,           \* the function called and its arguments, or None
    result,         \* None or <<what the call returned>>
    \* ---- raw embeddings (vec_raw log, lmdb) ----
    vec_raw,        \* the bytes of <version>.vec_raw
    embeddings_db,  \* lmdb embeddings_db: id -> bytes of an EmbeddingOffset
    metadata_db,    \* lmdb metadata_db: key -> bytes
    latest,         \* id -> the raw vector of its last successful insert
    fetched,        \* None or <<the last fetch by id and its answer>>
    \* ---- requests running in parallel on one index ----
    par_pc,         \* thread -> where it is in its function
    par_loc,        \* thread -> the locals of its function
    par_hist        \* what the threads have done so far

dense_vars == <<nodes, props, prop_file, index_file, index_pos, root_vec,
                exec_queue>>
api_vars == <<current_version, current_open_transaction, resp, uploads, budget,
              txns, open_txns, refused, snap>>

sparse_vars == <<sparse_root, sparse_last>>

lru_vars == <<lru_map, lru_counter, lru_capacity, lru_pc, lru_loc, lru_hist>>

raw_vars == <<vec_raw, embeddings_db, metadata_db, latest, fetched>>

\* what neither the indexes nor the cache read or write
par_vars == <<par_pc, par_loc, par_hist>>

call_vars == <<call, result, raw_vars, par_vars>>

vars == <<dense_vars, api_vars, sparse_vars, lru_vars, call_vars>>

Indexes == {"dense", "sparse"}

Threads == 1..LruThreads

\* nothing has been called: the calls and keys so far, the runs of factories,
\* the most inserters in flight at once, whether two calls ever overlapped,
\* and the keys in the order of their last touch
NoHist == [ops |-> 0, keys |-> 0, factory_runs |-> 0, inserters |-> 0,
           overlapped |-> FALSE, order |-> <<>>]

\* the locals of a thread that is in no call
NoCall == [call |-> "none", key |-> 0, counter |-> 0, oldest_key |-> None,
           inserted |-> FALSE, err |-> FALSE, res |-> None, foreign |-> FALSE]

\* the inputs of the modelled requests
RootValues == {2}
Values == {1, 3}
Levels == 0..MaxCacheLevel

(***************************************************************************)
(* init_vector_store (api_service.rs lines 21-176)                         *)
(***************************************************************************)
\* lines 72-110: one node per level l = 0..max_cache_level, all with the
\* prop of VectorId -1 at location (0, 0); the node of level l gets the node
\* of level l - 1 as parent and becomes that node's child
SkeletonNodes ==
    [r \in 1..(MaxCacheLevel + 1) |->
        [hnsw_level |-> r - 1, version |-> 0, prop |-> 1,
         parent |-> IF r = 1 THEN NoRef ELSE r - 1,
         child |-> IF r = MaxCacheLevel + 1 THEN NoRef ELSE r + 1,
         neighbors |-> <<>>, versions |-> <<>>, offset |-> NoOffset]]

\* lines 100-107: the root is the node built for l = 0
SkeletonRoot == 1

\* lines 73-77, 103: the prop, written once to prop.data
SkeletonProp(v) == [id |-> SkeletonId, value |-> v, location |-> <<0, 0>>,
                    state |-> "Ready"]

\* lines 112-120: every node is persisted, in the order built
SkeletonPersisted(v) ==
    PersistAll([file |-> <<>>, pos |-> 0, nodes |-> SkeletonNodes, err |-> FALSE],
               <<SkeletonProp(v)>>, [i \in 1..(MaxCacheLevel + 1) |-> i],
               1, MaxCacheLevel + 1)

\* lines 157-161: store_current_version(.., "main", 0)
InitialVersion == [branch |-> "main", version |-> 0]

NoResp == [op |-> "none", index |-> "none", ok |-> TRUE, err |-> "", msg |-> "",
           open |-> FALSE, uploaded |-> FALSE]

InitDense(v) ==
    /\ nodes = SkeletonPersisted(v).nodes
    /\ props = <<SkeletonProp(v)>>
    /\ prop_file = write_prop_to_file(<<>>, SkeletonProp(v)).file
    /\ index_file = SkeletonPersisted(v).file
    /\ index_pos = SkeletonPersisted(v).pos
    /\ root_vec = SkeletonRoot
    /\ exec_queue = <<>>

InitApi ==
    /\ current_version = [i \in Indexes |-> InitialVersion]
    /\ current_open_transaction = [i \in Indexes |-> None]
    /\ resp = NoResp
    /\ uploads = 0
    /\ budget \in {MaxUploads, MaxFill, MaxSparseInserts} \cup 0..MaxGraph
    /\ txns = 0
    /\ open_txns = [i \in Indexes |-> {}]
    /\ refused = {}
    /\ snap = None

\* InvertedIndexSparseAnnNewDS::new, inverted_index_new_ds.rs lines 146-157
InitSparse ==
    /\ sparse_root = [p \in {<<>>} |-> InvertedIndexNewDSNode(0, FALSE)]
    /\ sparse_last = None

\* LRUCache::new, lru_cache.rs lines 88-95
InitLru ==
    /\ lru_map = <<>>
    /\ lru_counter = 0
    /\ lru_capacity \in 1..MaxLruCapacity
    /\ lru_pc = [t \in Threads |-> "idle"]
    /\ lru_loc = [t \in Threads |-> NoCall]
    /\ lru_hist = NoHist

\* no function is called on its own
\* the threads of the requests running in parallel
Workers == {"w1", "w2"}

\* no request is running
InitPar ==
    /\ par_pc = [t \in Workers |-> "idle"]
    /\ par_loc = [t \in Workers |-> None]
    /\ par_hist = None

InitCalls ==
    /\ InitPar
    /\ call = None
    /\ result = None
    /\ vec_raw = <<>>
    /\ embeddings_db = <<>>
    /\ metadata_db = <<>>
    /\ latest = <<>>
    /\ fetched = None

InitAll == /\ \E v \in RootValues : InitDense(v)
           /\ InitApi
           /\ InitSparse
           /\ InitLru
           /\ InitCalls

Init == InitAll /\ budget = MaxUploads

(***************************************************************************)
(* Uploads and commits of the dense index.                                 *)
(***************************************************************************)
DenseSt == [nodes |-> nodes, props |-> props, prop_file |-> prop_file,
            exec_queue |-> exec_queue, err |-> ""]

\* index_embeddings (vector_store.rs lines 397-545) hands each embedding to
\* index_embedding, starting at the root on level max_cache_level
Indexed(st, id, value, iv, version) ==
    index_embedding(st, NoRef, id, value, root_vec, MaxCacheLevel, iv, version)

\* vector_store.rs lines 706-722: every queued node is persisted, then the
\* queue is replaced by the empty one; `?` leaves the queue on an error
auto_commit_transaction(st) ==
    LET ss == PersistAll([file |-> index_file, pos |-> index_pos,
                          nodes |-> st.nodes, err |-> FALSE],
                         st.props, st.exec_queue, 1, Len(st.exec_queue))
    IN [ss |-> ss, exec_queue |-> IF ss.err THEN st.exec_queue ELSE <<>>]

\* api_service.rs lines 178-237: the embedding is indexed at the current
\* version, new_ver is only used to name the file, then the auto-commit runs;
\* the stored current version is not touched
run_upload(id, value, iv) ==
    \E st \in {Indexed(DenseSt, id, value, iv, current_version["dense"].version)} :
      \E c \in {auto_commit_transaction(st)} :
        /\ st.err = ""
        /\ nodes' = c.ss.nodes
        /\ props' = st.props
        /\ prop_file' = st.prop_file
        /\ index_file' = c.ss.file
        /\ index_pos' = c.ss.pos
        /\ exec_queue' = c.exec_queue
        /\ UNCHANGED root_vec

\* the graph a reader pinned at version number vn sees
VisibleGraph(ns, vn) ==
    [r \in {x \in DOMAIN ns : ns[x].version <= vn} |->
        [hnsw_level |-> ns[r].hnsw_level, version |-> ns[r].version,
         prop |-> ns[r].prop, parent |-> ns[r].parent, child |-> ns[r].child,
         neighbors |-> ns[r].neighbors,
         versions |-> SelectSeq(ns[r].versions, LAMBDA e : e.v <= vn)]]

(***************************************************************************)
(* The vectors API (api/vectordb/vectors/repo.rs).                         *)
(***************************************************************************)
OngoingMsg == "there is an ongoing transaction!"

Open(idx) == current_open_transaction[idx] # None

Answer(op, idx, ok, err, msg, uploaded) ==
    resp' = [op |-> op, index |-> idx, ok |-> ok, err |-> err, msg |-> msg,
             open |-> Open(idx), uploaded |-> uploaded]

\* lines 73-101
create_dense_vector(id, value, iv) ==
    /\ uploads < budget
    /\ IF Open("dense")
       THEN /\ Answer("create_dense", "dense", FALSE, "FailedToCreateVector",
                      OngoingMsg, FALSE)
            /\ refused' = refused \cup {"create_dense"}
            /\ UNCHANGED <<dense_vars, uploads>>
       ELSE /\ run_upload(id, value, iv)
            /\ Answer("create_dense", "dense", TRUE, "", "", TRUE)
            /\ uploads' = uploads + 1
            /\ UNCHANGED refused
    /\ UNCHANGED <<current_version, current_open_transaction, txns, open_txns, snap,
                   sparse_vars, budget, lru_vars, call_vars>>

\* lines 153-184
update_vector(id, value, iv) ==
    /\ uploads < budget
    /\ IF Open("dense")
       THEN /\ Answer("update", "dense", FALSE, "FailedToUpdateVector",
                      OngoingMsg, FALSE)
            /\ refused' = refused \cup {"update"}
            /\ UNCHANGED <<dense_vars, uploads>>
       ELSE /\ run_upload(id, value, iv)
            /\ Answer("update", "dense", TRUE, "", "", TRUE)
            /\ uploads' = uploads + 1
            /\ UNCHANGED refused
    /\ UNCHANGED <<current_version, current_open_transaction, txns, open_txns, snap,
                   sparse_vars, budget, lru_vars, call_vars>>

\* the sparse vectors a request may carry: lists of <<dim_index, value>>
SparseEntries == {<< <<1, 1>> >>, << <<5, 2>>, <<6, 0>> >>}

\* lines 40-69: after the upload the answer is Err(NotImplemented) all the same
create_sparse_vector(id, entries) ==
    /\ uploads < budget
    /\ IF Open("sparse")
       THEN /\ Answer("create_sparse", "sparse", FALSE, "FailedToCreateVector",
                      OngoingMsg, FALSE)
            /\ refused' = refused \cup {"create_sparse"}
            /\ UNCHANGED <<sparse_vars, uploads>>
       ELSE /\ sparse_root' = add_sparse_vector(sparse_root, id, entries)
            /\ sparse_last' = None
            /\ Answer("create_sparse", "sparse", FALSE, "NotImplemented", "", TRUE)
            /\ uploads' = uploads + 1
            /\ UNCHANGED refused
    /\ UNCHANGED <<dense_vars, current_version, current_open_transaction, txns,
                   open_txns, snap, budget, lru_vars, call_vars>>

(***************************************************************************)
(* The transaction coordinator: create, upsert, commit and abort on the    *)
(* exclusive slot of an index.                                             *)
(***************************************************************************)
Snapshot ==
    [graph |-> VisibleGraph(nodes, current_version["dense"].version),
     exec_queue |-> exec_queue,
     current_version |-> current_version["dense"]]

\* the slot is taken over whether or not a transaction is open
TakeSlot(idx) ==
    /\ txns < MaxTxns
    /\ current_open_transaction' =
         [current_open_transaction EXCEPT
            ![idx] = <<[id |-> txns + 1,
                        version_number |-> current_version[idx].version + 1]>>]
    /\ txns' = txns + 1
    /\ open_txns' = [open_txns EXCEPT ![idx] = @ \cup {txns + 1}]
    /\ snap' = IF idx = "dense"
               THEN <<[before |-> Snapshot, prop_len |-> Len(prop_file)]>>
               ELSE snap
    /\ Answer("create_transaction", idx, TRUE, "", "", FALSE)
    /\ UNCHANGED <<dense_vars, sparse_vars, current_version, uploads, budget, lru_vars, call_vars, refused>>

create_transaction(idx) ==
    /\ txns < MaxTxns
    /\ IF Open(idx)
       THEN /\ Answer("create_transaction", idx, FALSE, "OngoingTransaction", "", FALSE)
            /\ UNCHANGED <<current_open_transaction, txns, open_txns, snap>>
       ELSE /\ current_open_transaction' =
                 [current_open_transaction EXCEPT
                    ![idx] = <<[id |-> txns + 1,
                                version_number |-> current_version[idx].version + 1]>>]
            /\ txns' = txns + 1
            /\ open_txns' = [open_txns EXCEPT ![idx] = @ \cup {txns + 1}]
            /\ snap' = IF idx = "dense"
                       THEN <<[before |-> Snapshot, prop_len |-> Len(prop_file)]>>
                       ELSE snap
            /\ Answer("create_transaction", idx, TRUE, "", "", FALSE)
    /\ UNCHANGED <<dense_vars, sparse_vars, current_version, uploads, budget, lru_vars, call_vars, refused>>

\* the batch is indexed at the version of the open transaction and stays
\* queued until the commit
upsert(id, value, iv) ==
    /\ uploads < budget
    /\ Open("dense")
    /\ \E st \in {Indexed(DenseSt, id, value, iv,
                           current_open_transaction["dense"][1].version_number)} :
          /\ st.err = ""
          /\ nodes' = st.nodes
          /\ props' = st.props
          /\ prop_file' = st.prop_file
          /\ exec_queue' = st.exec_queue
    /\ uploads' = uploads + 1
    /\ Answer("upsert", "dense", TRUE, "", "", TRUE)
    /\ UNCHANGED <<index_file, index_pos, root_vec, sparse_vars, current_version,
                   current_open_transaction, budget, lru_vars, call_vars, txns, open_txns, refused, snap>>

\* the version a successful commit records
Advanced(v) == [v EXCEPT !.version = @ + 1]

commit_transaction(idx) ==
    /\ Open(idx)
    /\ IF idx = "dense"
       THEN \E c \in {auto_commit_transaction(DenseSt)} :
               /\ ~c.ss.err
               /\ nodes' = c.ss.nodes
               /\ index_file' = c.ss.file
               /\ index_pos' = c.ss.pos
               /\ exec_queue' = c.exec_queue
               /\ UNCHANGED <<props, prop_file, root_vec>>
       ELSE UNCHANGED dense_vars
    /\ current_version' = [current_version EXCEPT ![idx] = Advanced(@)]
    /\ current_open_transaction' = [current_open_transaction EXCEPT ![idx] = None]
    /\ open_txns' = [open_txns EXCEPT
                       ![idx] = @ \ {current_open_transaction[idx][1].id}]
    /\ snap' = IF idx = "dense" THEN None ELSE snap
    /\ Answer("commit", idx, TRUE, "", "", FALSE)
    /\ UNCHANGED <<sparse_vars, uploads, budget, lru_vars, call_vars, txns, refused>>

\* the nodes of version number vn are dropped, with their chain entries
DropVersion(ns, vn) ==
    [r \in {x \in DOMAIN ns : ns[x].version # vn} |->
        [ns[r] EXCEPT !.versions = SelectSeq(@, LAMBDA e : e.v # vn)]]

\* the props no node refers to any more are dropped from the end
LiveProps(ns, ps) == SubSeq(ps, 1, SetMax({ns[r].prop : r \in DOMAIN ns}))

abort_transaction(idx) ==
    /\ Open(idx)
    /\ IF idx = "dense"
       THEN \E vn \in {current_open_transaction[idx][1].version_number} :
             \E kept \in {DropVersion(nodes, vn)} :
               /\ nodes' = kept
               /\ props' = LiveProps(kept, props)
               /\ exec_queue' = SelectSeq(exec_queue, LAMBDA r : nodes[r].version # vn)
               /\ UNCHANGED <<prop_file, index_file, index_pos, root_vec>>
       ELSE UNCHANGED dense_vars
    /\ current_open_transaction' = [current_open_transaction EXCEPT ![idx] = None]
    /\ open_txns' = [open_txns EXCEPT
                       ![idx] = @ \ {current_open_transaction[idx][1].id}]
    /\ Answer("abort", idx, TRUE, "", "", FALSE)
    /\ UNCHANGED <<sparse_vars, current_version, uploads, budget, lru_vars, call_vars, txns, refused, snap>>

\* the next fresh vector id, and the ids already uploaded
FreshId == uploads + 1
KnownIds == {props[p].id : p \in 1..Len(props)} \ {SkeletonId}

Next ==
    \/ \E v \in Values, iv \in Levels : create_dense_vector(FreshId, v, iv)
    \/ \E id \in KnownIds, v \in Values, iv \in Levels : update_vector(id, v, iv)
    \/ \E e \in SparseEntries : create_sparse_vector(FreshId, e)
    \/ \E idx \in Indexes : create_transaction(idx)
    \/ \E v \in Values, iv \in Levels : upsert(FreshId, v, iv)
    \/ \E idx \in Indexes : commit_transaction(idx)
    \/ \E idx \in Indexes : abort_transaction(idx)


Spec == Init /\ [][Next]_vars
(***************************************************************************)
(* Similarity search requests (repo.rs find_similar_vectors), between the  *)
(* creates of the dense index.                                             *)
(***************************************************************************)
\* the largest k of a search request
MaxK == 2

\* the query vectors: empty, of one and of two components
QueryVectors == {<<>>, <<1>>, <<3, 1>>}

\* the answer without the check of lines 189-193 (an empty vector has no
\* first component: 0 stands for it)
SimilarUnchecked(vector, k) ==
    [ok |-> TRUE,
     similar |-> <<[id |-> k, score |-> IF vector = <<>> THEN 0 ELSE vector[1]]>>]

\* lines 186-198: an empty vector is refused; otherwise the answer is one
\* entry whose id is k and whose score is the first component of the vector
SimilarVectors(vector, k) ==
    IF Len(vector) = 0
    THEN [ok |-> FALSE, err |-> "FailedToFindSimilarVectors",
          msg |-> "Vector shouldn't be empty"]
    ELSE [ok |-> TRUE, similar |-> <<[id |-> k, score |-> vector[1]]>>]

find_similar_vectors(vector, k) ==
    /\ call' = [op |-> "find_similar_vectors", vector |-> vector, k |-> k]
    /\ result' = <<SimilarVectors(vector, k)>>
    /\ UNCHANGED <<raw_vars, par_vars, dense_vars, api_vars, sparse_vars, lru_vars>>

NextSearch ==
    \/ \E v \in Values, iv \in Levels : create_dense_vector(FreshId, v, iv)
    \/ \E vector \in QueryVectors, k \in 0..MaxK : find_similar_vectors(vector, k)

SpecSearch == Init /\ [][NextSearch]_vars

(***************************************************************************)
(* Uploads of requests running in parallel: each indexes its embedding and *)
(* then runs auto_commit_transaction, whose reads and writes of            *)
(* exec_queue_nodes are steps of their own.                                *)
(***************************************************************************)
ApiRest == <<current_version, current_open_transaction, resp, budget, txns,
             open_txns, refused, snap>>

\* run_upload up to the auto-commit: the embedding is indexed, which queues
\* its nodes and the forks of its neighbours (vector_store.rs lines 689-697
\* and 808-815)
upload_index(t, value, iv) ==
    /\ par_pc[t] = "idle"
    /\ uploads < budget
    /\ \E st \in {Indexed(DenseSt, FreshId, value, iv,
                           current_version["dense"].version)} :
          /\ st.err = ""
          /\ nodes' = st.nodes
          /\ props' = st.props
          /\ prop_file' = st.prop_file
          /\ exec_queue' = st.exec_queue
    /\ uploads' = uploads + 1
    /\ par_pc' = [par_pc EXCEPT ![t] = "get"]
    /\ UNCHANGED <<index_file, index_pos, root_vec, par_loc, par_hist, ApiRest,
                   call, result, raw_vars, sparse_vars, lru_vars>>

\* vector_store.rs lines 711-712: the queue is read and cloned
commit_get(t) ==
    /\ par_pc[t] = "get"
    /\ par_loc' = [par_loc EXCEPT ![t] = exec_queue]
    /\ par_pc' = [par_pc EXCEPT ![t] = "persist"]
    /\ UNCHANGED <<dense_vars, api_vars, par_hist, call, result, raw_vars,
                   sparse_vars, lru_vars>>

\* lines 714-717: the nodes of the clone are persisted; `?` returns on an error
commit_persist(t) ==
    /\ par_pc[t] = "persist"
    /\ \E ss \in {PersistAll([file |-> index_file, pos |-> index_pos,
                               nodes |-> nodes, err |-> FALSE],
                              props, par_loc[t], 1, Len(par_loc[t]))} :
          /\ nodes' = ss.nodes
          /\ index_file' = ss.file
          /\ index_pos' = ss.pos
          /\ par_pc' = [par_pc EXCEPT ![t] = IF ss.err THEN "idle" ELSE "update"]
    /\ UNCHANGED <<props, prop_file, root_vec, exec_queue, api_vars, par_loc,
                   par_hist, call, result, raw_vars, sparse_vars, lru_vars>>

\* line 719: the queue is replaced by the empty one
commit_update(t) ==
    /\ par_pc[t] = "update"
    /\ exec_queue' = <<>>
    /\ par_pc' = [par_pc EXCEPT ![t] = "idle"]
    /\ par_loc' = [par_loc EXCEPT ![t] = None]
    /\ UNCHANGED <<nodes, props, prop_file, index_file, index_pos, root_vec,
                   api_vars, par_hist, call, result, raw_vars, sparse_vars,
                   lru_vars>>

NextCommitRace ==
    \E t \in Workers :
        \/ \E v \in Values, iv \in Levels : upload_index(t, v, iv)
        \/ commit_get(t)
        \/ commit_persist(t)
        \/ commit_update(t)

SpecCommitRace == Init /\ [][NextCommitRace]_vars

(***************************************************************************)
(* Bare creates running in parallel with create-transaction requests: the  *)
(* check of the slot and the upload that follows are steps of their own.   *)
(***************************************************************************)
\* repo.rs lines 50-54 and 84-92: the slot of the index is read; the request
\* is refused if it holds a transaction and goes on to its upload if not
bare_check(t, idx) ==
    /\ par_pc[t] = "idle"
    /\ uploads < budget
    /\ IF Open(idx)
       THEN /\ Answer(IF idx = "dense" THEN "create_dense" ELSE "create_sparse",
                      idx, FALSE, "FailedToCreateVector", OngoingMsg, FALSE)
            /\ refused' = refused \cup {IF idx = "dense" THEN "create_dense"
                                                          ELSE "create_sparse"}
            /\ UNCHANGED par_pc
       ELSE /\ par_pc' = [par_pc EXCEPT ![t] = idx]
            /\ UNCHANGED <<resp, refused>>
    /\ UNCHANGED <<dense_vars, sparse_vars, uploads, current_version,
                   current_open_transaction, txns, open_txns, snap, budget,
                   par_loc, par_hist, call, result, raw_vars, lru_vars>>

\* repo.rs lines 94-100: the upload of create_dense_vector and its answer
bare_upload_dense(t, value, iv) ==
    /\ par_pc[t] = "dense"
    /\ run_upload(FreshId, value, iv)
    /\ Answer("create_dense", "dense", TRUE, "", "", TRUE)
    /\ uploads' = uploads + 1
    /\ par_pc' = [par_pc EXCEPT ![t] = "idle"]
    /\ UNCHANGED <<sparse_vars, refused, current_version, current_open_transaction,
                   txns, open_txns, snap, budget, par_loc, par_hist, call, result,
                   raw_vars, lru_vars>>

\* repo.rs lines 56-68: the upload of create_sparse_vector and its answer
bare_upload_sparse(t, entries) ==
    /\ par_pc[t] = "sparse"
    /\ sparse_root' = add_sparse_vector(sparse_root, FreshId, entries)
    /\ sparse_last' = None
    /\ Answer("create_sparse", "sparse", FALSE, "NotImplemented", "", TRUE)
    /\ uploads' = uploads + 1
    /\ par_pc' = [par_pc EXCEPT ![t] = "idle"]
    /\ UNCHANGED <<dense_vars, refused, current_version, current_open_transaction,
                   txns, open_txns, snap, budget, par_loc, par_hist, call, result,
                   raw_vars, lru_vars>>

NextGateRace ==
    \/ \E t \in Workers, idx \in Indexes : bare_check(t, idx)
    \/ \E t \in Workers, v \in Values, iv \in Levels : bare_upload_dense(t, v, iv)
    \/ \E t \in Workers, e \in SparseEntries : bare_upload_sparse(t, e)
    \/ \E idx \in Indexes : create_transaction(idx)

SpecGateRace == Init /\ [][NextGateRace]_vars

(***************************************************************************)
(* Inserts running in parallel (index_embeddings, into_par_iter): each     *)
(* thread inserts one node on level 0; the reads and the writes of         *)
(* insert_node_create_edges on a neighbour are steps of their own.         *)
(***************************************************************************)
\* the version the inserts are made under: that of the open transaction, or
\* the current one
InsertVersion ==
    IF Open("dense") THEN current_open_transaction["dense"][1].version_number
    ELSE current_version["dense"].version

ParRest == <<call, result, raw_vars, sparse_vars, lru_vars>>

\* index_embedding on level 0 (lines 558-587) up to the loop of
\* insert_node_create_edges (lines 747-774): the neighbours are the nearest
\* found from the root, or the root; the prop and the node are created
edge_begin(t, fvec) ==
    /\ par_pc[t] = "idle"
    /\ uploads < budget
    /\ LET hash_vec == FreshId
           found == traverse_find_nearest(nodes, props, root_vec, fvec, 0,
                                          {hash_vec}, 0, TRUE)
           z == IF found.nn = <<>>
                THEN <<[n |-> root_vec,
                        m |-> Metric(fvec, props[nodes[root_vec].prop].value)]>>
                ELSE found.nn
           node == NewRef(nodes)
           prop == [id |-> hash_vec, value |-> fvec, location |-> None,
                    state |-> "Ready"]
       IN /\ ~found.err
          /\ props' = Append(props, prop)
          /\ nodes' = AddNode(nodes, node,
                              create_node_extract_neighbours(InsertVersion, 0,
                                                             Len(props) + 1, NoRef))
          /\ par_loc' = [par_loc EXCEPT ![t] =
                           [node |-> node, nbs |-> z, i |-> 1,
                            version |-> InsertVersion]]
    /\ uploads' = uploads + 1
    /\ par_pc' = [par_pc EXCEPT ![t] = "get_version"]
    /\ UNCHANGED <<prop_file, index_file, index_pos, root_vec, exec_queue,
                   par_hist, ApiRest, ParRest>>

\* lines 782-785: nbr1.get_version(version_number)
edge_get_version(t) ==
    /\ par_pc[t] = "get_version"
    /\ par_loc' = [par_loc EXCEPT ![t] =
          [node |-> @.node, nbs |-> @.nbs, i |-> @.i, version |-> @.version,
           existing |-> get_version(nodes, @.nbs[@.i].n, @.version)]]
    /\ par_pc' = [par_pc EXCEPT ![t] = "target"]
    /\ UNCHANGED <<dense_vars, api_vars, par_hist, ParRest>>

\* lines 786-818: the edges of the item of this version are read; or, none
\* having been found, nbr1 is forked, the fork added to its chain and queued,
\* and the edges of nbr1 read
edge_target(t) ==
    /\ par_pc[t] = "target"
    /\ LET l == par_loc[t]
           nbr1 == l.nbs[l.i].n
           f == NewRef(nodes)
           fork == create_node_extract_neighbours(l.version, 0, nodes[nbr1].prop,
                                                  nodes[nbr1].parent)
       IN IF l.existing # NoRef
          THEN /\ par_loc' = [par_loc EXCEPT ![t] =
                     [node |-> l.node, nbs |-> l.nbs, i |-> l.i,
                      version |-> l.version, new_neighbor |-> l.existing,
                      neighbor_list |-> nodes[l.existing].neighbors]]
               /\ UNCHANGED <<nodes, exec_queue>>
          ELSE /\ nodes' = add_version(AddNode(nodes, f, fork), nbr1, l.version, f)
               /\ exec_queue' = Append(exec_queue, f)
               /\ par_loc' = [par_loc EXCEPT ![t] =
                     [node |-> l.node, nbs |-> l.nbs, i |-> l.i,
                      version |-> l.version, new_neighbor |-> f,
                      neighbor_list |-> nodes[nbr1].neighbors]]
    /\ par_pc' = [par_pc EXCEPT ![t] = "wire"]
    /\ UNCHANGED <<props, prop_file, index_file, index_pos, root_vec, api_vars,
                   par_hist, ParRest>>

\* lines 820-837: the list read gets the new node, is sorted and cut to 20,
\* and replaces the edges of the neighbour's version; the new node gets the
\* edge back
edge_update(t) ==
    /\ par_pc[t] = "wire"
    /\ LET l == par_loc[t]
           dist == l.nbs[l.i].m
       IN /\ nodes' = [nodes EXCEPT
                         ![l.new_neighbor].neighbors =
                             NewEdges(l.neighbor_list, l.node, dist),
                         ![l.node].neighbors =
                             SetInsert(@, [n |-> l.new_neighbor, m |-> dist])]
          /\ par_loc' = [par_loc EXCEPT ![t] =
                [node |-> l.node, nbs |-> l.nbs, i |-> l.i + 1,
                 version |-> l.version]]
          /\ par_pc' = [par_pc EXCEPT ![t] =
                IF l.i + 1 > Len(l.nbs) THEN "queue" ELSE "get_version"]
    /\ UNCHANGED <<props, prop_file, index_file, index_pos, root_vec, exec_queue,
                   api_vars, par_hist, ParRest>>

\* line 841: queue_node_prop_exec on the new node; the insert is complete
edge_queue(t) ==
    /\ par_pc[t] = "queue"
    /\ \E st \in {queue_node_prop_exec(DenseSt, par_loc[t].node)} :
          /\ st.err = ""
          /\ nodes' = st.nodes
          /\ props' = st.props
          /\ prop_file' = st.prop_file
          /\ exec_queue' = st.exec_queue
    /\ par_hist' = Append(par_hist,
                          [node |-> par_loc[t].node,
                           nbs |-> {e.n : e \in Range(par_loc[t].nbs)},
                           version |-> par_loc[t].version])
    /\ par_pc' = [par_pc EXCEPT ![t] = "idle"]
    /\ par_loc' = [par_loc EXCEPT ![t] = None]
    /\ UNCHANGED <<index_file, index_pos, root_vec, api_vars, ParRest>>

NextEdgeRace ==
    \/ \E t \in Workers, v \in Values : edge_begin(t, v)
    \/ \E t \in Workers : edge_get_version(t)
    \/ \E t \in Workers : edge_target(t)
    \/ \E t \in Workers : edge_update(t)
    \/ \E t \in Workers : edge_queue(t)
    \/ create_transaction("dense")

SpecEdgeRace == Init /\ [][NextEdgeRace]_vars

(***************************************************************************)
(* The long run: uploads one after the other until neighbour lists are     *)
(* full, the last ones possibly inside a transaction.                      *)
(***************************************************************************)
FillValues == IF uploads < FillBranch THEN Values ELSE {1}
FillLevels == IF uploads < FillBranch THEN Levels ELSE {MaxCacheLevel}

InitFill == InitAll /\ budget = MaxFill

NextFill ==
    \/ \E v \in FillValues, iv \in FillLevels : create_dense_vector(FreshId, v, iv)
    \/ \E v \in FillValues, iv \in FillLevels : upsert(FreshId, v, iv)
    \/ uploads = FillTxnAt /\ create_transaction("dense")
    \/ commit_transaction("dense")

SpecFill == InitFill /\ [][NextFill]_vars

(***************************************************************************)
(* traverse_find_nearest call by call: the graph is built by uploads, then *)
(* the function is called on it and its iterations and returns are steps.  *)
(***************************************************************************)
Traverser == "w1"

TraverseRest == <<dense_vars, api_vars, sparse_vars, lru_vars, call, result, raw_vars>>

\* the VectorId of the node behind a ref
IdOf(r) == props[nodes[r].prop].id

\* the entries a descent hands to the function: the root, or a node found
\* on the level above (lines 77-87, 577-587, 101-109)
TraverseEntries == {root_vec, SetMax(DOMAIN nodes)}

\* the hop counts the calls are observed from: the first call of a descent,
\* the last that recurses and the first that does not
HopStarts(cur_level) ==
    {0, tapered_total_hops(FullHops, cur_level, MaxCacheLevel),
     tapered_total_hops(FullHops, cur_level, MaxCacheLevel) + 1}

\* index_embedding (lines 558-587) passes skip_hop = true and the id of the
\* vector it inserts; ann_search (lines 32-87) passes false and the id of the
\* vector it is asked for
TraverseCallers ==
    {[skip_hop |-> TRUE, hs |-> FreshId], [skip_hop |-> FALSE, hs |-> 1]}

\* the outermost call (lines 846-861): its frame, and skipm as handed in
traverse_begin(t, vtm, fvec, hs, hops, cur_level, skip_hop) ==
    /\ par_pc[t] = "idle"
    /\ uploads = budget
    /\ par_pc' = [par_pc EXCEPT ![t] = "traverse"]
    /\ par_loc' = [par_loc EXCEPT ![t] =
                     [m |-> [stack |-> <<Frame(nodes, vtm, hops)>>, skipm |-> {hs},
                             err |-> FALSE, nn |-> <<>>],
                      fvec |-> fvec, cur_level |-> cur_level,
                      skip_hop |-> skip_hop, skipm0 |-> {hs},
                      expanded |-> <<IdOf(vtm)>>, depth |-> 1]]
    /\ par_hist' = None
    /\ UNCHANGED TraverseRest

\* one iteration of the loop of the innermost call (lines 863-914), or its
\* return (lines 916-939); the return of the outermost call ends the traversal
traverse_step(t) ==
    /\ par_pc[t] = "traverse"
    /\ LET l == par_loc[t]
           top == l.m.stack[Len(l.m.stack)]
           m2 == TraverseStep(nodes, props, l.fvec, l.cur_level, l.skip_hop, l.m)
           l2 == [l EXCEPT !.m = m2,
                           !.expanded =
                               IF Len(m2.stack) > Len(l.m.stack)
                               THEN Append(@, IdOf(top.nbrs[top.index + 1].n))
                               ELSE @,
                           !.depth = Max2(@, Len(m2.stack))]
       IN IF m2.stack = <<>>
          THEN /\ par_pc' = [par_pc EXCEPT ![t] = "idle"]
               /\ par_loc' = [par_loc EXCEPT ![t] = None]
               /\ par_hist' = <<[err |-> m2.err, nn |-> m2.nn, skipm |-> m2.skipm,
                                 skipm0 |-> l.skipm0, fvec |-> l.fvec,
                                 expanded |-> l2.expanded, depth |-> l2.depth]>>
          ELSE /\ par_loc' = [par_loc EXCEPT ![t] = l2]
               /\ UNCHANGED <<par_pc, par_hist>>
    /\ UNCHANGED TraverseRest

\* the graphs of 0..MaxGraph uploads; the cache plays no part
InitTraverse == InitAll /\ budget \in 0..MaxGraph /\ lru_capacity = MaxLruCapacity

NextTraverse ==
    \/ \E v \in Values, iv \in FillLevels : create_dense_vector(FreshId, v, iv)
    \/ \E vtm \in TraverseEntries, fvec \in Values, cur_level \in Levels,
          c \in TraverseCallers :
         \E hops \in HopStarts(cur_level) :
           traverse_begin(Traverser, vtm, fvec, c.hs, hops, cur_level, c.skip_hop)
    \/ traverse_step(Traverser)

SpecTraverse == InitTraverse /\ [][NextTraverse]_vars

\* a call that has begun goes on to its return
SpecTraverseFair == SpecTraverse /\ WF_vars(traverse_step(Traverser))

(***************************************************************************)
(* Inserts into the sparse index alone.                                    *)
(***************************************************************************)
SparseDims == {1, 5, 6}
\* numerators over ValueDen: -0.5, 0, 0.5, 1.0
SparseValues == {-1, 0, 1, 2}
SparseIds == {7, 8}

\* InvertedIndexSparseAnnNewDS::insert, lines 180-189
insert(dim_index, value, vector_id) ==
    /\ uploads < budget
    /\ sparse_root' = SparseInsert(sparse_root, dim_index, value, vector_id)
    /\ sparse_last' = <<dim_index, value, vector_id>>
    /\ uploads' = uploads + 1
    /\ UNCHANGED <<dense_vars, current_version, current_open_transaction, resp,
                   budget, lru_vars, call_vars, txns, open_txns, refused, snap>>

InitSparseOnly == InitAll /\ budget = MaxSparseInserts

NextSparse ==
    \E d \in SparseDims, v \in SparseValues, id \in SparseIds : insert(d, v, id)

SpecSparse == InitSparseOnly /\ [][NextSparse]_vars

(***************************************************************************)
(* Inserts into the sparse index in parallel (add_sparse_vector, par_iter): *)
(* each thread makes one insert at a time; the attempts of checked_insert   *)
(* on a child slot are steps of their own.  par_hist maps the path of a     *)
(* filled slot to the item that fills it; an item is known by the thread    *)
(* that made it and the number of the insert it was made for.               *)
(***************************************************************************)
TrieRest == <<dense_vars, current_version, current_open_transaction, resp, budget,
              txns, open_txns, refused, snap, sparse_last, lru_vars, call, result,
              raw_vars>>

\* the values of the parallel inserts: 0.5 and 1.0
RaceValues == {1, 2}

\* each thread inserts the entries of a vector of its own
RaceId(t) == IF t = "w1" THEN 7 ELSE 8

\* checked_insert never filling the slot
refused_insert(items, slot, new_child) == [items |-> items, child |-> None]

\* checked_insert setting the slot whatever it holds
unchecked_insert(items, slot, new_child) ==
    [items |-> (slot :> new_child) @@ [p \in DOMAIN items \ {slot} |-> items[p]],
     child |-> <<new_child>>]

\* LazyItemArray::checked_insert, the compare-and-set: the new child goes into
\* the slot only when the slot is empty; the answer is the child inserted, or
\* None when the slot had been filled
checked_insert(items, slot, new_child) ==
    IF slot \in DOMAIN items
    THEN [items |-> items, child |-> None]
    ELSE [items |-> (slot :> new_child) @@ items, child |-> <<new_child>>]

\* what a thread does once it has the child of a slot (line 84): the child is
\* its current node, the rest of the path is left
Descend(l, slot, child) ==
    [l EXCEPT !.at = slot, !.node = child, !.path = Tail(@)]

\* InvertedIndexSparseAnnNewDS::insert, lines 180-186: the path from the root
trie_begin(t, dim_index, value, vector_id) ==
    /\ par_pc[t] = "idle"
    /\ uploads < budget
    /\ uploads' = uploads + 1
    /\ par_pc' = [par_pc EXCEPT ![t] = "child"]
    /\ par_loc' = [par_loc EXCEPT ![t] =
                     [path |-> calculate_path(dim_index, sparse_root[<<>>].dim_index),
                      at |-> <<>>, node |-> [by |-> "root", no |-> 0],
                      new_child |-> [by |-> t, no |-> uploads + 1],
                      dim_index |-> dim_index, value |-> value,
                      vector_id |-> vector_id, retried |-> FALSE, written |-> FALSE]]
    /\ UNCHANGED <<par_hist, sparse_root, TrieRest>>

\* lines 74-86, the call of checked_insert up to its compare-and-set: a slot
\* found filled gives its child; at the end of the path the node is found
trie_child(t) ==
    /\ par_pc[t] = "child"
    /\ LET l == par_loc[t]
           slot == Append(l.at, Head(l.path))
       IN IF l.path = <<>>
          THEN /\ par_pc' = [par_pc EXCEPT ![t] = "insert"]
               /\ UNCHANGED par_loc
          ELSE IF slot \in DOMAIN par_hist
          THEN /\ par_loc' = [par_loc EXCEPT ![t] = Descend(l, slot, par_hist[slot])]
               /\ UNCHANGED par_pc
          ELSE /\ par_pc' = [par_pc EXCEPT ![t] = "cas"]
               /\ UNCHANGED par_loc
    /\ UNCHANGED <<par_hist, sparse_root, uploads, TrieRest>>

\* lines 79-86, the compare-and-set of checked_insert: the new child, a node
\* of the parent's dimension plus the power of 4 of the slot (lines 76-78),
\* fills the empty slot; on None the loop calls checked_insert again
trie_cas(t) ==
    /\ par_pc[t] = "cas"
    /\ LET l == par_loc[t]
           slot == Append(l.at, Head(l.path))
           new_dim_index == sparse_root[l.at].dim_index + POWERS_OF_4[Head(l.path) + 1]
       IN \E c \in {checked_insert(par_hist, slot, l.new_child)} :
            /\ par_hist' = c.items
            /\ sparse_root' =
                 IF slot \in DOMAIN par_hist /\ c.items[slot] = par_hist[slot]
                 THEN sparse_root
                 ELSE (slot :> InvertedIndexNewDSNode(new_dim_index, TRUE))
                      @@ [p \in DOMAIN sparse_root \ {slot} |-> sparse_root[p]]
            /\ par_loc' = [par_loc EXCEPT ![t] =
                             IF c.child = None THEN [l EXCEPT !.retried = TRUE]
                             ELSE Descend(l, slot, c.child[1])]
            /\ par_pc' = [par_pc EXCEPT ![t] = "child"]
    /\ UNCHANGED <<uploads, TrieRest>>

\* InvertedIndexNewDSNode::insert, lines 95-103, on the node found: the write
\* reaches the trie when that node is the one in the slot
trie_insert(t) ==
    /\ par_pc[t] = "insert"
    /\ LET l == par_loc[t]
       IN /\ sparse_root' =
               IF l.at = <<>> \/ (l.at \in DOMAIN par_hist /\ par_hist[l.at] = l.node)
               THEN NodeInsert(sparse_root, l.at, l.value, l.vector_id)
               ELSE sparse_root
          /\ par_loc' = [par_loc EXCEPT ![t] = [l EXCEPT !.written = TRUE]]
    /\ par_pc' = [par_pc EXCEPT ![t] = "idle"]
    /\ UNCHANGED <<par_hist, uploads, TrieRest>>

NextTrieRace ==
    \/ \E t \in Workers, d \in SparseDims, v \in RaceValues :
         trie_begin(t, d, v, RaceId(t))
    \/ \E t \in Workers : trie_child(t)
    \/ \E t \in Workers : trie_cas(t)
    \/ \E t \in Workers : trie_insert(t)

\* a new index; the cache plays no part
InitTrieRace == InitSparseOnly /\ lru_capacity = MaxLruCapacity

SpecTrieRace == InitTrieRace /\ [][NextTrieRace]_vars

\* every thread goes on
SpecTrieRaceFair ==
    SpecTrieRace /\ \A t \in Workers :
                       WF_vars(trie_child(t) \/ trie_cas(t) \/ trie_insert(t))

(***************************************************************************)
(* The LRU cache (models/lru_cache.rs).  A call is a sequence of steps,    *)
(* one per access to the map or to the counter; a step made under the lock *)
(* of a map entry is one step.                                             *)
(***************************************************************************)
\* the counter wraps at 2^32; here at 2^CounterBits
CounterModulus == 2 ^ CounterBits
CounterMax == CounterModulus - 1

\* lines 16-23, with u32::MAX at the width of the model; the value is that of
\* the expression over the integers
counter_age(global_value, item_value) ==
    IF global_value >= item_value
    THEN global_value - item_value
    ELSE (CounterMax - item_value) + global_value

\* lines 200-202: fetch_add(1) returns the value before the addition
increment_counter == (lru_counter + 1) % CounterModulus

Others == <<dense_vars, api_vars, sparse_vars, call_vars>>

\* the keys a call may name: those used so far and the next one
CallKeys == 1..Min2(lru_hist.keys + 1, MaxLruKeys)

\* the threads inside a call that inserts
Inserting(pc, loc) ==
    {t \in Threads : pc[t] # "idle"
                     /\ (loc[t].call = "insert" \/ (loc[t].inserted /\ ~loc[t].err))}

\* k has been touched last
Touched(order, k) == Append(SelectSeq(order, LAMBDA x : x # k), k)

Called(k, pc, loc) ==
    [lru_hist EXCEPT !.ops = @ + 1,
                     !.keys = Max2(@, k),
                     !.inserters = Max2(@, Cardinality(Inserting(pc, loc))),
                     !.overlapped = @ \/ \E t \in Threads : lru_pc[t] # "idle",
                     !.order = Touched(@, k)]

\* the threads in flight whose call is not the call c of key k, when c is
\* get_or_insert; every thread in flight otherwise
Foreign(t, c, k) ==
    {u \in Threads \ {t} :
        /\ lru_pc[u] # "idle"
        /\ ~(c = "get_or_insert" /\ lru_loc[u].call = c /\ lru_loc[u].key = k)}

\* thread t begins the call c of key k with the locals rec; the calls it
\* overlaps with that are not get_or_insert of the same key are marked, and
\* so is the new call when there are any or when a marked call is in flight
Begin(t, c, k, rec) ==
    [u \in Threads |->
        IF u = t
        THEN [rec EXCEPT !.foreign = \/ Foreign(t, c, k) # {}
                                     \/ \E w \in Threads : lru_loc[w].foreign]
        ELSE IF u \in Foreign(t, c, k) THEN [lru_loc[u] EXCEPT !.foreign = TRUE]
        ELSE lru_loc[u]]

\* lines 97-105: a hit gets a fresh stamp, under the lock of the entry
get(t, k) ==
    /\ lru_pc[t] = "idle"
    /\ lru_hist.ops < MaxLruOps
    /\ k \in DOMAIN lru_map
    /\ lru_map' = [lru_map EXCEPT ![k].counter = lru_counter]
    /\ lru_counter' = increment_counter
    /\ lru_hist' = Called(k, lru_pc, lru_loc)
    /\ lru_loc' = Begin(t, "get", k, NoCall)
    /\ UNCHANGED <<lru_capacity, lru_pc, Others>>

\* lines 107-108: the stamp is taken before the map is touched
lru_insert(t, k) ==
    /\ lru_pc[t] = "idle"
    /\ lru_hist.ops < MaxLruOps
    /\ lru_pc' = [lru_pc EXCEPT ![t] = "insert"]
    /\ lru_loc' = Begin(t, "insert", k,
                       [NoCall EXCEPT !.call = "insert", !.key = k,
                                      !.counter = lru_counter])
    /\ lru_counter' = increment_counter
    /\ lru_hist' = Called(k, lru_pc', lru_loc')
    /\ UNCHANGED <<lru_map, lru_capacity, Others>>

\* line 108: self.map.insert(key, (value, stamp))
map_insert(t) ==
    /\ lru_pc[t] = "insert"
    /\ lru_map' = (lru_loc[t].key :> [v |-> 0, counter |-> lru_loc[t].counter])
                  @@ lru_map
    /\ lru_pc' = [lru_pc EXCEPT ![t] = "evict"]
    /\ UNCHANGED <<lru_counter, lru_capacity, lru_loc, lru_hist, Others>>

\* line 116 with the closure left out: the stamp of the entry stays
Unmodified(map, k, stamp) == map

\* lines 117-120 with the entry made before the factory is asked
InsertAnyway(map, k, v, stamp, ok) == (k :> [v |-> v, counter |-> stamp]) @@ map

\* line 116: and_modify gives the entry of a present key a fresh stamp
and_modify(map, k, stamp) == [map EXCEPT ![k].counter = stamp]

\* lines 117-120: or_try_insert_with makes the entry of an absent key from
\* the value of the factory, and makes none when the factory fails
or_try_insert_with(map, k, v, stamp, ok) ==
    IF ok THEN (k :> [v |-> v, counter |-> stamp]) @@ map ELSE map

\* lines 112-134, up to the call of evict: the entry is locked; a present
\* key gets a fresh stamp, an absent one the value the factory makes; the
\* factory returns Ok (ok) or an error, and takes a stamp only with Ok
get_or_insert(t, k, ok) ==
    /\ lru_pc[t] = "idle"
    /\ lru_hist.ops < MaxLruOps
    /\ IF k \in DOMAIN lru_map
       THEN /\ lru_counter' = increment_counter
            /\ lru_map' = and_modify(lru_map, k, lru_counter)
            /\ lru_loc' = Begin(t, "get_or_insert", k,
                               [NoCall EXCEPT !.call = "get_or_insert",
                                              !.key = k,
                                              !.res = <<lru_map[k].v>>])
            /\ lru_pc' = [lru_pc EXCEPT ![t] = "return"]
            /\ lru_hist' = Called(k, lru_pc', lru_loc')
       ELSE /\ lru_counter' = IF ok THEN increment_counter ELSE lru_counter
            /\ lru_map' = or_try_insert_with(lru_map, k, lru_hist.factory_runs + 1,
                                             lru_counter, ok)
            /\ lru_loc' = Begin(t, "get_or_insert", k,
                               [NoCall EXCEPT !.call = "get_or_insert",
                                              !.key = k,
                                              !.inserted = TRUE,
                                              !.err = ~ok,
                                              !.res = IF ok
                                                      THEN <<lru_hist.factory_runs + 1>>
                                                      ELSE None])
            /\ lru_pc' = [lru_pc EXCEPT ![t] = IF ok THEN "evict" ELSE "return"]
            /\ lru_hist' = [Called(k, lru_pc', lru_loc') EXCEPT
                               !.factory_runs = @ + 1,
                               !.order = IF ok THEN @ ELSE lru_hist.order]
    /\ UNCHANGED <<lru_capacity, Others>>

\* where a call goes when its eviction is over
AfterEvict(t) == IF lru_loc[t].call = "get_or_insert" THEN "return" ELSE "idle"

Leave(t, pc) ==
    /\ lru_pc' = [lru_pc EXCEPT ![t] = pc]
    /\ lru_loc' = [lru_loc EXCEPT ![t] = IF pc = "idle" THEN NoCall ELSE @]

\* lines 136-147: evict_lru is called when the map is over capacity
evict(t) ==
    /\ lru_pc[t] = "evict"
    /\ IF Cardinality(DOMAIN lru_map) > lru_capacity
       THEN lru_pc' = [lru_pc EXCEPT ![t] = "evict_lru"] /\ UNCHANGED lru_loc
       ELSE Leave(t, AfterEvict(t))
    /\ UNCHANGED <<lru_map, lru_counter, lru_capacity, lru_hist, Others>>

\* lines 150-159: the keys the scan may end with -- an entry with the
\* smallest stamp, if that is below u32::MAX; the order of the iteration
\* decides between equal stamps
Oldest(map) ==
    {<<k>> : k \in {x \in DOMAIN map :
                      /\ map[x].counter < CounterMax
                      /\ \A y \in DOMAIN map : map[x].counter <= map[y].counter}}

evict_lru(t) ==
    /\ lru_pc[t] = "evict_lru"
    /\ \E o \in (IF Oldest(lru_map) = {} THEN {None} ELSE Oldest(lru_map)) :
          lru_loc' = [lru_loc EXCEPT ![t].oldest_key = o]
    /\ lru_pc' = [lru_pc EXCEPT ![t] = "remove"]
    /\ UNCHANGED <<lru_map, lru_counter, lru_capacity, lru_hist, Others>>

\* lines 161-171: the key found is removed, if it is still there
map_remove(t) ==
    /\ lru_pc[t] = "remove"
    /\ lru_map' = [k \in DOMAIN lru_map \ Range(lru_loc[t].oldest_key) |-> lru_map[k]]
    /\ lru_hist' = [lru_hist EXCEPT
                       !.order = SelectSeq(@, LAMBDA x : <<x>> # lru_loc[t].oldest_key)]
    /\ Leave(t, AfterEvict(t))
    /\ UNCHANGED <<lru_counter, lru_capacity, Others>>

\* lines 125-133: Ok(v), or the error of the factory, goes back to the caller
return(t) ==
    /\ lru_pc[t] = "return"
    /\ Leave(t, "idle")
    /\ UNCHANGED <<lru_map, lru_counter, lru_capacity, lru_hist, Others>>

NextLRU ==
    \/ \E t \in Threads, k \in CallKeys : get(t, k)
    \/ \E t \in Threads, k \in CallKeys : lru_insert(t, k)
    \/ \E t \in Threads : map_insert(t)
    \/ \E t \in Threads, k \in CallKeys : get_or_insert(t, k, TRUE)
    \/ \E t \in Threads : evict(t)
    \/ \E t \in Threads : evict_lru(t)
    \/ \E t \in Threads : map_remove(t)
    \/ \E t \in Threads : return(t)

InitLRU == InitAll /\ budget = MaxUploads

SpecLRU == InitLRU /\ [][NextLRU]_vars

\* the same calls, with factories that may fail
NextLRUFallible ==
    \/ \E t \in Threads, k \in CallKeys : get(t, k)
    \/ \E t \in Threads, k \in CallKeys : lru_insert(t, k)
    \/ \E t \in Threads : map_insert(t)
    \/ \E t \in Threads, k \in CallKeys, ok \in BOOLEAN : get_or_insert(t, k, ok)
    \/ \E t \in Threads : evict(t)
    \/ \E t \in Threads : evict_lru(t)
    \/ \E t \in Threads : map_remove(t)
    \/ \E t \in Threads : return(t)

SpecLRUFallible == InitLRU /\ [][NextLRUFallible]_vars

\* a cache that has been in use for long: after insert(1), get(1) has been
\* called until the counter stands at its last value before it wraps
InitAged ==
    /\ \E v \in RootValues : InitDense(v)
    /\ InitApi
    /\ InitSparse
    /\ budget = MaxUploads
    /\ lru_map = (1 :> [v |-> 0, counter |-> CounterMax - 1])
    /\ lru_counter = CounterMax
    /\ lru_capacity \in 1..MaxLruCapacity
    /\ lru_pc = [t \in Threads |-> "idle"]
    /\ lru_loc = [t \in Threads |-> NoCall]
    /\ lru_hist = [NoHist EXCEPT !.keys = 1, !.order = <<1>>]
    /\ InitCalls

SpecLRUAged == InitAged /\ [][NextLRU]_vars

\* the threads call nothing but get_or_insert
NextGetOrInsert ==
    \/ \E t \in Threads, k \in CallKeys : get_or_insert(t, k, TRUE)
    \/ \E t \in Threads : evict(t)
    \/ \E t \in Threads : evict_lru(t)
    \/ \E t \in Threads : map_remove(t)
    \/ \E t \in Threads : return(t)

SpecGetOrInsertAged == InitAged /\ [][NextGetOrInsert]_vars

(***************************************************************************)
(* The raw-embedding log <version>.vec_raw and the offsets kept of it      *)
(* (vector_store.rs lines 237-318).  A file is a sequence of bytes.        *)
(***************************************************************************)
ByteModulus == 2 ^ ByteBits

\* the values of a u32 are 0 .. WordModulus - 1
WordModulus == ByteModulus ^ 4

\* `as u32`
as_u32(x) == x % WordModulus

\* u32::to_be_bytes, the bytes most significant first
to_be_bytes(x) ==
    [i \in 1..4 |-> (x \div (ByteModulus ^ (4 - i))) % ByteModulus]

\* u32::to_le_bytes (lines 266-267)
to_le_bytes(x) ==
    [i \in 1..4 |-> (x \div (ByteModulus ^ (i - 1))) % ByteModulus]

\* u32::from_le_bytes (lines 277-278)
from_le_bytes(bytes) ==
    bytes[1] + ByteModulus * bytes[2] + (ByteModulus ^ 2) * bytes[3]
    + (ByteModulus ^ 3) * bytes[4]

\* EmbeddingOffset::serialize, lines 263-270
serialize(x) == to_le_bytes(x.version) \o to_le_bytes(x.offset)

\* EmbeddingOffset::deserialize, lines 272-284
deserialize_offset(bytes) ==
    IF Len(bytes) # 8
    THEN [ok |-> FALSE, err |-> "Input must be exactly 8 bytes"]
    ELSE [ok |-> TRUE,
          version |-> from_le_bytes(SubSeq(bytes, 1, 4)),
          offset |-> from_le_bytes(SubSeq(bytes, 5, 8))]

\* rkyv::to_bytes of a RawVectorEmbedding (line 242): the f32 of raw_vec, four
\* bytes each, then the root -- the length of raw_vec and the id -- at the end
to_bytes(emb) ==
    [i \in 1..(4 * Len(emb.raw_vec)) |->
        to_le_bytes(emb.raw_vec[((i - 1) \div 4) + 1])[((i - 1) % 4) + 1]]
    \o to_le_bytes(Len(emb.raw_vec)) \o to_le_bytes(emb.hash_vec)

\* what from_bytes_unchecked makes of bytes that are no archive
NoArchive == [raw_vec |-> <<>>, hash_vec |-> -1]

\* rkyv::from_bytes_unchecked (line 307): the root is read from the end of the
\* buffer and raw_vec from the bytes before it
from_bytes_unchecked(buf) ==
    LET size == Len(buf)
        n == from_le_bytes(SubSeq(buf, size - 7, size - 4))
        data == size - 8 - 4 * n
    IN IF size < 8 THEN NoArchive
       ELSE IF data < 0 THEN NoArchive
       ELSE [raw_vec |-> [j \in 1..n |->
                            from_le_bytes(SubSeq(buf, data + 4 * j - 3, data + 4 * j))],
             hash_vec |-> from_le_bytes(SubSeq(buf, size - 3, size))]

\* lines 237-255: the cursor is put at the end of the file, whose offset is
\* kept as a u32; the length and the bytes are written there
write_embedding(file, emb) ==
    LET serialized == to_bytes(emb)
        len == as_u32(Len(serialized))
        start == as_u32(Len(file))
    IN [file |-> file \o to_le_bytes(len) \o serialized, start |-> start]

\* lines 287-318: the length is read at the offset, then as many bytes; next
\* is where the cursor stands after them, as a u32
read_embedding(file, offset) ==
    LET len == from_le_bytes(SubSeq(file, offset + 1, offset + 4))
        buf == SubSeq(file, offset + 5, offset + 4 + len)
    IN IF offset + 4 > Len(file) THEN [ok |-> FALSE, err |-> "EOF"]
       ELSE IF offset + 4 + len > Len(file) THEN [ok |-> FALSE, err |-> "EOF"]
       ELSE [ok |-> TRUE, emb |-> from_bytes_unchecked(buf),
             next |-> as_u32(offset + 4 + len)]

\* the embeddings written: an id, and zero to two f32 as their bits
RawEmbeddings ==
    {[raw_vec |-> v, hash_vec |-> id] :
        v \in {<<>>, <<1>>, <<WordModulus - 2>>, <<ByteModulus, 1>>},
        id \in {1, WordModulus - 1}}

\* the embedding of the records a log holds already
Filler == [raw_vec |-> <<0>>, hash_vec |-> 0]

\* the record of Filler
FillerRecord == write_embedding(<<>>, Filler).file

\* a log of k records of Filler
LogOf(k) ==
    [i \in 1..(k * Len(FillerRecord)) |-> FillerRecord[((i - 1) % Len(FillerRecord)) + 1]]

\* lines 986-988: the embeddings are written one after the other; starts are
\* the offsets the writes returned
RECURSIVE WriteAll(_, _)
WriteAll(w, embeddings) ==
    IF embeddings = <<>> THEN w
    ELSE LET r == write_embedding(w.file, Head(embeddings))
         IN WriteAll([file |-> r.file, starts |-> Append(w.starts, r.start)],
                     Tail(embeddings))

\* lines 990-997: n records are read, the first at offset, each other one at
\* the next of the read before it
RECURSIVE ReadAll(_, _, _)
ReadAll(file, offset, n) ==
    IF n = 0 THEN <<>>
    ELSE LET r == read_embedding(file, offset)
         IN IF r.ok THEN <<r>> \o ReadAll(file, r.next, n - 1) ELSE <<r>>

(***************************************************************************)
(* Raw embeddings by id: insert_embedding keeps in lmdb where in the log an *)
(* embedding was written, and the fetch by id reads it back from there.    *)
(* The store is the record rs = [vec_raw, embeddings_db, metadata_db].     *)
(***************************************************************************)
\* every variable but those of the raw embeddings and of the calls is as after
\* construction
InitRest ==
    /\ InitPar
    /\ \E v \in RootValues : InitDense(v)
    /\ InitApi
    /\ InitSparse
    /\ InitLru
    /\ lru_capacity = MaxLruCapacity
    /\ budget = MaxUploads

\* txn.get: None for lmdb::Error::NotFound
Get(db, key) == IF key \in DOMAIN db THEN <<db[key]>> ELSE None

\* lines 320-395: the embedding is appended to the log, the offset of its
\* record put under its id, next_version and count_unindexed updated
InsertedEmbedding(rs, emb, current) ==
    LET found == Get(rs.metadata_db, "count_unindexed")
        count_unindexed == IF found = None THEN 0 ELSE from_le_bytes(found[1])
        w == write_embedding(rs.vec_raw, emb)
        offset_serialized == serialize([version |-> current, offset |-> w.start])
    IN [vec_raw |-> w.file,
        embeddings_db |-> (emb.hash_vec :> offset_serialized) @@ rs.embeddings_db,
        metadata_db |-> ("next_version" :> to_le_bytes(current))
                        @@ ("count_unindexed" :> to_le_bytes(as_u32(count_unindexed + 1)))
                        @@ rs.metadata_db]

\* get_embedding_by_id: the offset kept under the id is looked up and the
\* record read at it from the log of its version
get_embedding_by_id(rs, vector_id) ==
    LET found == Get(rs.embeddings_db, vector_id)
        offset == deserialize_offset(found[1])
        r == read_embedding(rs.vec_raw, offset.offset)
    IN IF found = None THEN [ok |-> FALSE, err |-> "NotFound"]
       ELSE IF ~offset.ok THEN [ok |-> FALSE, err |-> offset.err]
       ELSE r

Store == [vec_raw |-> vec_raw, embeddings_db |-> embeddings_db,
          metadata_db |-> metadata_db]

\* the ids and the raw vectors of the requests
FetchIds == {1, 2}
RawVectors == {<<1>>, <<WordModulus - 2>>}

\* insert_embedding at the current version of the dense index
insert_embedding(id, values) ==
    /\ uploads < budget
    /\ \E rs \in {InsertedEmbedding(Store, [raw_vec |-> values, hash_vec |-> id],
                                     version_hash(current_version["dense"].version))} :
          /\ vec_raw' = rs.vec_raw
          /\ embeddings_db' = rs.embeddings_db
          /\ metadata_db' = rs.metadata_db
    /\ latest' = (id :> values) @@ latest
    /\ uploads' = uploads + 1
    /\ fetched' = None
    /\ UNCHANGED <<call, result, par_vars, dense_vars, sparse_vars, lru_vars,
                   current_version, current_open_transaction, resp, budget, txns,
                   open_txns, refused, snap>>

\* repo.rs lines 130-151: the embedding found is answered with its id and
\* its values, an error of get_embedding_by_id as DatabaseError
get_vector_by_id(vector_id) ==
    /\ \E e \in {get_embedding_by_id(Store, vector_id)} :
          fetched' = <<[vector_id |-> vector_id,
                        answer |-> IF e.ok
                                   THEN [ok |-> TRUE, id |-> e.emb.hash_vec,
                                         values |-> e.emb.raw_vec]
                                   ELSE [ok |-> FALSE, err |-> "DatabaseError"]]>>
    /\ UNCHANGED <<vec_raw, embeddings_db, metadata_db, latest, call, result,
                   par_vars, dense_vars, api_vars, sparse_vars, lru_vars>>

\* a collection whose log holds k records of Filler, inserted one by one
InitRaw(k) ==
    /\ vec_raw = LogOf(k)
    /\ embeddings_db =
         IF k = 0 THEN <<>>
         ELSE (Filler.hash_vec :>
                 serialize([version |-> version_hash(InitialVersion.version),
                            offset |-> as_u32((k - 1) * Len(FillerRecord))]))
    /\ metadata_db =
         IF k = 0 THEN <<>>
         ELSE ("next_version" :> to_le_bytes(version_hash(InitialVersion.version)))
              @@ ("count_unindexed" :> to_le_bytes(as_u32(k)))
    /\ latest = IF k = 0 THEN <<>> ELSE (Filler.hash_vec :> Filler.raw_vec)
    /\ fetched = None

\* new, and after as many inserts as fill the range of a u32 but one or two
InitFetch ==
    /\ InitRest
    /\ call = None
    /\ result = None
    /\ \E k \in {0, (WordModulus \div Len(FillerRecord)) - 2,
                  (WordModulus \div Len(FillerRecord)) - 1} : InitRaw(k)

NextFetch ==
    \/ \E id \in FetchIds, values \in RawVectors : insert_embedding(id, values)
    \/ \E id \in FetchIds \cup {Filler.hash_vec} : get_vector_by_id(id)

SpecFetch == InitFetch /\ [][NextFetch]_vars

(***************************************************************************)
(* The counts of indexed and unindexed embeddings: insert_embedding and    *)
(* index_embeddings on one collection.  index_embeddings reads the counts  *)
(* in a read transaction of its own and writes them after indexing.        *)
(***************************************************************************)
\* the number of index_embeddings calls of a run
MaxIndexRuns == 2

\* lines 409-429: a count kept in metadata_db, 0 when the key is not there
MetaCount(db, key) == IF Get(db, key) = None THEN 0 ELSE from_le_bytes(db[key])

\* lines 527-542: the records from offset i to file_len, each read at the next
\* of the one before; a failed read ends the loop with its error
RECURSIVE LogEmbeddings(_, _, _)
LogEmbeddings(file, i, file_len) ==
    IF i = file_len THEN [ok |-> TRUE, embeddings |-> <<>>]
    ELSE LET r == read_embedding(file, i)
             rest == LogEmbeddings(file, r.next, file_len)
         IN IF ~r.ok THEN [ok |-> FALSE, embeddings |-> <<>>]
            ELSE [ok |-> rest.ok,
                  embeddings |-> <<[at |-> i, emb |-> r.emb]>> \o rest.embeddings]

\* lines 448-477: every embedding of the batch is indexed from the root; the
\* quantized vector is taken to be the first component of raw_vec
RECURSIVE IndexAll(_, _, _, _)
IndexAll(st, embeddings, iv, version) ==
    IF embeddings = <<>> THEN st
    ELSE IndexAll(Indexed(st, Head(embeddings).emb.hash_vec,
                          Head(embeddings).emb.raw_vec[1], iv, version),
                  Tail(embeddings), iv, version)

\* the index_embeddings calls begun so far
RunsBegun == Cardinality({i \in 1..Len(par_hist) : par_hist[i].kind = "begin"})

\* the offsets of the records indexed so far
IndexedRecords == {e.at : e \in {x \in Range(par_hist) : x.kind = "indexed"}}

\* lines 405-445: the counts and next_version are read; without next_version
\* the call returns an error
index_begin(t) ==
    /\ par_pc[t] = "idle"
    /\ RunsBegun < MaxIndexRuns
    /\ par_hist' = Append(par_hist, [kind |-> "begin", at |-> 0])
    /\ IF Get(metadata_db, "next_version") = None
       THEN UNCHANGED <<par_pc, par_loc>>
       ELSE /\ par_pc' = [par_pc EXCEPT ![t] = "index"]
            /\ par_loc' = [par_loc EXCEPT ![t] =
                  [count_indexed |-> MetaCount(metadata_db, "count_indexed"),
                   count_unindexed |-> MetaCount(metadata_db, "count_unindexed"),
                   version |-> from_le_bytes(metadata_db["next_version"])]]
    /\ UNCHANGED <<dense_vars, api_vars, vec_raw, embeddings_db, metadata_db,
                   latest, fetched, call, result, sparse_vars, lru_vars>>

\* lines 447-545: the log of the version is read from offset 0 to its end and
\* its embeddings indexed; count_indexed goes up and count_unindexed down by
\* their number, and both are written.  A u32 subtraction that underflows
\* panics in a build with overflow checks and wraps in one without.
index_run(t, iv, wraps) ==
    /\ par_pc[t] = "index"
    /\ \E log \in {LogEmbeddings(vec_raw, 0, as_u32(Len(vec_raw)))} :
        \E st \in {IndexAll(DenseSt, log.embeddings, iv, par_loc[t].version)} :
          /\ log.ok
          /\ st.err = ""
          /\ nodes' = st.nodes
          /\ props' = st.props
          /\ prop_file' = st.prop_file
          /\ exec_queue' = st.exec_queue
          /\ par_hist' = par_hist \o [i \in 1..Len(log.embeddings) |->
                                         [kind |-> "indexed", at |-> log.embeddings[i].at]]
          /\ LET batch_size == Len(log.embeddings)
                 count_indexed == par_loc[t].count_indexed + batch_size
                 count_unindexed == par_loc[t].count_unindexed - batch_size
             IN IF count_unindexed < 0 /\ ~wraps
                THEN UNCHANGED metadata_db
                ELSE metadata_db' =
                       ("count_indexed" :> to_le_bytes(as_u32(count_indexed)))
                       @@ ("count_unindexed" :> to_le_bytes(as_u32(count_unindexed)))
                       @@ metadata_db
    /\ par_pc' = [par_pc EXCEPT ![t] = "idle"]
    /\ par_loc' = [par_loc EXCEPT ![t] = None]
    /\ UNCHANGED <<index_file, index_pos, root_vec, api_vars, vec_raw,
                   embeddings_db, latest, fetched, call, result, sparse_vars,
                   lru_vars>>

InitCounts ==
    /\ InitRest
    /\ call = None
    /\ result = None
    /\ InitRaw(0)

NextCounts ==
    \/ \E id \in FetchIds, values \in RawVectors : insert_embedding(id, values)
    \/ \E t \in Workers : index_begin(t)
    \/ \E t \in Workers, iv \in Levels, wraps \in BOOLEAN : index_run(t, iv, wraps)

SpecCounts == InitCounts /\ [][NextCounts]_vars

(***************************************************************************)
(* Functions called on their own: a call is drawn with its arguments, and  *)
(* the one step of the run applies the function to them.                   *)
(***************************************************************************)
Returns(v) ==
    /\ result = None
    /\ result' = <<v>>
    /\ UNCHANGED <<call, raw_vars, par_vars, dense_vars, api_vars, sparse_vars, lru_vars>>

\* counter_age on every pair of counter values
CounterAgeCalls ==
    {[op |-> "counter_age", global_value |-> g, item_value |-> s] :
        g \in 0..CounterMax, s \in 0..CounterMax}

apply_counter_age ==
    /\ call.op = "counter_age"
    /\ Returns(counter_age(call.global_value, call.item_value))

\* u32 values at and around the ends of the range and of a byte
SomeWords ==
    {0, 1, ByteModulus - 1, ByteModulus, WordModulus \div 2,
     WordModulus - 2, WordModulus - 1}

\* an EmbeddingOffset is serialized and the bytes deserialized
OffsetCalls ==
    {[op |-> "EmbeddingOffset", x |-> [version |-> v, offset |-> o]] :
        v \in 0..(WordModulus - 1), o \in SomeWords}

apply_serialize ==
    /\ call.op = "EmbeddingOffset"
    /\ Returns([bytes |-> serialize(call.x),
                back |-> deserialize_offset(serialize(call.x))])

\* byte strings of every length from 0 to 10 but 8
OtherLengths ==
    {[op |-> "deserialize", bytes |-> [i \in 1..n |-> b]] :
        n \in (0..10) \ {8}, b \in {0, ByteModulus - 1}}

apply_deserialize ==
    /\ call.op = "deserialize"
    /\ Returns(deserialize_offset(call.bytes))

\* the logs an embedding is written to: empty, of one record, and of as
\* many records as fill the range of a u32, and one more
Logs ==
    {LogOf(k) : k \in {0, 1, WordModulus \div Len(FillerRecord),
                       WordModulus \div Len(FillerRecord) + 1}}

\* test_embedding_serialization (lines 964-976) on a log that may hold records
RoundTripCalls ==
    {[op |-> "write_embedding", file |-> f, emb |-> e] :
        f \in Logs, e \in RawEmbeddings}

apply_write_embedding ==
    /\ call.op = "write_embedding"
    /\ \E w \in {write_embedding(call.file, call.emb)} :
          Returns([start |-> w.start, size |-> Len(w.file),
                   read |-> read_embedding(w.file, w.start)])

\* the sequences written to an empty log: up to two embeddings, then up to
\* MaxRecords of Filler
Batches ==
    LET heads == {<<>>} \cup {<<e>> : e \in RawEmbeddings}
                 \cup {<<e1, e2>> : e1 \in RawEmbeddings, e2 \in RawEmbeddings}
    IN {[op |-> "write_embeddings", embeddings |-> h \o [i \in 1..k |-> Filler]] :
           h \in heads, k \in 0..MaxRecords}

\* test_embeddings_serialization (lines 978-998): the embeddings are written
\* to an empty file and as many records read back from offset 0
apply_write_embeddings ==
    /\ call.op = "write_embeddings"
    /\ \E w \in {WriteAll([file |-> <<>>, starts |-> <<>>], call.embeddings)} :
          Returns([starts |-> w.starts, size |-> Len(w.file),
                   reads |-> ReadAll(w.file, 0, Len(call.embeddings))])

\* the largest dimension index of the calls, but those at the end of the table
MaxDim == 40

\* the first n that is 4 times the last entry of the table or more
TableBound == 4 * POWERS_OF_4[Len(POWERS_OF_4)]

\* n from 1, and at and around the last entry and the end of the table
PowerCalls ==
    {[op |-> "largest_power_of_4_below", n |-> n] :
        n \in (1..MaxDim) \cup {POWERS_OF_4[Len(POWERS_OF_4)] - 1,
                                POWERS_OF_4[Len(POWERS_OF_4)],
                                TableBound - 1, TableBound, TableBound + 1}}

apply_largest_power_of_4_below ==
    /\ call.op = "largest_power_of_4_below"
    /\ Returns(largest_power_of_4_below(call.n))

\* target_dim_index >= current_dim_index, with differences from 0 and at and
\* around the last entry and the end of the table
PathCalls ==
    {[op |-> "calculate_path", target_dim_index |-> c + d, current_dim_index |-> c] :
        c \in {0, 1, 5},
        d \in (0..MaxDim) \cup {POWERS_OF_4[Len(POWERS_OF_4)] - 1,
                                POWERS_OF_4[Len(POWERS_OF_4)],
                                TableBound - 1, TableBound, TableBound + 1}}

apply_calculate_path ==
    /\ call.op = "calculate_path"
    /\ Returns(calculate_path(call.target_dim_index, call.current_dim_index))

\* error.rs lines 8-15: the variants of VectorsError
VectorsErrors ==
    {"NotFound", "FailedToGetAppEnv", "FailedToCreateVector",
     "FailedToUpdateVector", "FailedToFindSimilarVectors", "NotImplemented"}

\* error.rs lines 44-53: BAD_REQUEST is 400, INTERNAL_SERVER_ERROR is 500
status_code(error) ==
    CASE error = "NotFound" -> 400
      [] error = "FailedToGetAppEnv" -> 500
      [] error = "FailedToCreateVector" -> 400
      [] error = "NotImplemented" -> 400
      [] error = "FailedToUpdateVector" -> 400
      [] error = "FailedToFindSimilarVectors" -> 400

StatusCalls == {[op |-> "status_code", error |-> e] : e \in VectorsErrors}

apply_status_code ==
    /\ call.op = "status_code"
    /\ Returns(status_code(call.error))

\* service::create_collection: the collection made for the request, named
\* after it, or an error
ServiceCreateCollection(dto, ok) ==
    IF ok THEN [ok |-> TRUE, database_name |-> dto.name, quant_dim |-> dto.dimensions]
    ELSE [ok |-> FALSE]

\* controller.rs lines 11-26: the bounds are read from the request, the
\* collection created, and the response built; an error of the service is
\* the response (`?`)
create_collection(dto, ok) ==
    LET lower_bound == dto.min_val
        upper_bound == dto.max_val
        collection == ServiceCreateCollection(dto, ok)
    IN IF ~collection.ok THEN [ok |-> FALSE]
       ELSE [ok |-> TRUE,
             id |-> collection.database_name,
             dimensions |-> collection.quant_dim,
             max_val |-> lower_bound,
             min_val |-> upper_bound,
             name |-> collection.database_name]

\* requests to create a collection, and whether the service succeeds
CollectionCalls ==
    {[op |-> "create_collection", ok |-> ok,
      dto |-> [name |-> n, dimensions |-> d, min_val |-> lo, max_val |-> hi]] :
        ok \in BOOLEAN, n \in {"a", "b"}, d \in {1, 2}, lo \in {-1, 0}, hi \in {0, 1}}

apply_create_collection ==
    /\ call.op = "create_collection"
    /\ Returns(create_collection(call.dto, call.ok))

\* MergedNode::serialize (node.rs lines 16-117) on a writer at stream
\* position pos, with the offsets at the width of a u32 (`as u32`, lines 17,
\* 57, 66, 75), for a node whose parent, child and neighbours are in the file
\* already: LazyItemRef::serialize gives their offsets and writes nothing, the
\* neighbour set writes its count and 12 bytes an item.  A file maps the
\* position of a field to the value written there
serialize_node(file, pos, node) ==
    LET start_offset == as_u32(pos)
        parent_present == node.parent # None
        child_present == node.child # None
        parent_at == pos + 10
        child_at == parent_at + (IF parent_present THEN 8 ELSE 0)
        neighbors_at == child_at + (IF child_present THEN 8 ELSE 0)
        parent_placeholder == as_u32(parent_at)
        child_placeholder == as_u32(child_at)
        neighbors_placeholder == as_u32(neighbors_at)
        f0 == Put(file, pos, node.hnsw_level)
        f1 == Put(Put(f0, pos + 1, node.location[1]), pos + 5, node.location[2])
        f2 == Put(f1, pos + 9, Indicator(parent_present, child_present))
        f3 == IF parent_present
              THEN Put(Put(f2, parent_at, 0), parent_at + 4, 0) ELSE f2
        f4 == IF child_present
              THEN Put(Put(f3, child_at, 0), child_at + 4, 0) ELSE f3
        f5 == Put(f4, neighbors_at, WordModulus - 1)
        set_at == neighbors_at + 4
        f6 == Put(f5, set_at, node.neighbors)
        neighbors_offset == as_u32(set_at)
        end_pos == set_at + 4 + 12 * node.neighbors
        g1 == IF parent_present
              THEN Put(Put(f6, parent_placeholder, node.parent[1].offset),
                       parent_placeholder + 4, node.parent[1].version)
              ELSE f6
        g2 == IF child_present
              THEN Put(Put(g1, child_placeholder, node.child[1].offset),
                       child_placeholder + 4, node.child[1].version)
              ELSE g1
        g3 == Put(g2, neighbors_placeholder, neighbors_offset)
    IN [ok |-> TRUE, offset |-> start_offset, file |-> g3, pos |-> end_pos]

\* the positions of the writer: the start of the file, after a first node,
\* and around the largest u32
WriterPositions ==
    {0, 26, WordModulus - 40, WordModulus - 12, WordModulus, WordModulus + 26}

\* the nodes serialized: with and without a parent, a child, a neighbour
NodeCalls ==
    {[op |-> "serialize_node", pos |-> p,
      node |-> [hnsw_level |-> 1, location |-> <<0, 2>>, parent |-> a, child |-> b,
                neighbors |-> k]] :
        p \in WriterPositions,
        a \in {None, <<[offset |-> 2, version |-> 0]>>},
        b \in {None, <<[offset |-> 5, version |-> 1]>>},
        k \in 0..1}

apply_serialize_node ==
    /\ call.op = "serialize_node"
    /\ Returns(serialize_node(<<>>, call.pos, call.node))

InitFunctions ==
    /\ InitRest
    /\ vec_raw = <<>>
    /\ embeddings_db = <<>>
    /\ metadata_db = <<>>
    /\ latest = <<>>
    /\ fetched = None
    /\ call \in CounterAgeCalls \cup OffsetCalls \cup OtherLengths
                \cup RoundTripCalls \cup Batches \cup PowerCalls \cup PathCalls
                \cup StatusCalls \cup CollectionCalls \cup NodeCalls
    /\ result = None

NextFunctions ==
    \/ apply_counter_age
    \/ apply_serialize
    \/ apply_deserialize
    \/ apply_write_embedding
    \/ apply_write_embeddings
    \/ apply_largest_power_of_4_below
    \/ apply_calculate_path
    \/ apply_status_code
    \/ apply_create_collection
    \/ apply_serialize_node

SpecFunctions == InitFunctions /\ [][NextFunctions]_vars

(***************************************************************************)
(* Properties of the transaction gate and of commits.                      *)
(***************************************************************************)
\* C1: at most one transaction is open per index -- the slot holds nothing
\* or exactly the one transaction created and not yet ended -- and a create
\* request issued while the slot is taken fails and leaves the slot as it was
C1_OneOpenTransaction ==
    /\ [](\A idx \in Indexes :
            /\ Cardinality(open_txns[idx]) <= 1
            /\ open_txns[idx] = {t.id : t \in Range(current_open_transaction[idx])})
    /\ [][\A idx \in Indexes :
            (Open(idx) /\ resp'.op = "create_transaction" /\ resp'.index = idx)
            => /\ ~resp'.ok
               /\ resp'.err = "OngoingTransaction"
               /\ current_open_transaction' = current_open_transaction]_vars

\* a create request has been refused because a transaction was open
C1_Witness ==
    /\ resp.op = "create_transaction"
    /\ resp.open
    /\ ~resp.ok
    /\ Open(resp.index)

BareWrites == {"create_dense", "create_sparse", "update"}

\* C2: a bare create or update (dense create, sparse create, dense update)
\* issued while its index has an open transaction fails with "there is an
\* ongoing transaction!" and uploads nothing; the request refused that way
\* succeeds once a transaction of the index has been committed and none is open
C2_BareWriteGate ==
    resp.op \in BareWrites
    => IF resp.open
       THEN ~resp.ok /\ resp.msg = OngoingMsg /\ ~resp.uploaded
       ELSE (resp.op \in refused /\ current_version[resp.index].version > 0)
            => resp.ok

\* C3: every successful commit -- of a transaction, or the automatic one that
\* ends a bare upload -- leaves current_version one above the version before
\* it, on the same branch
C3_CommitAdvancesVersion ==
    [][(resp'.ok /\ (resp'.op = "commit"
                     \/ (resp'.op \in {"create_dense", "update"} /\ resp'.uploaded)))
       => current_version'[resp'.index] = Advanced(current_version[resp'.index])]_vars

\* C4: after the abort of a dense transaction the graph readers see at the
\* version before the transaction (parent, child and neighbours of every
\* node), exec_queue and current_version are what they were when the
\* transaction was created, and no node of the dropped version is left
C4_AbortRestores ==
    (resp.op = "abort" /\ resp.index = "dense")
    => /\ snap # None
       /\ Snapshot = snap[1].before
       /\ \A r \in DOMAIN nodes : nodes[r].version <= current_version["dense"].version

\* a dense transaction with at least one upsert inside has been aborted
C4_Witness ==
    /\ resp.op = "abort"
    /\ resp.index = "dense"
    /\ snap # None
    /\ Len(prop_file) > snap[1].prop_len

\* C6: every persisted node of a level L > 0 -- skeleton, inserted or forked --
\* deserializes with a child present, and that child deserializes to a node
\* of level L - 1 with the same prop id
C6_PersistedChild ==
    \A r \in DOMAIN nodes :
        (nodes[r].offset # NoOffset /\ nodes[r].hnsw_level > 0)
        => LET d == deserialize(index_file, nodes[r].offset)
           IN /\ d.child # None
              /\ LET c == deserialize(index_file, d.child.offset)
                 IN /\ c.hnsw_level = d.hnsw_level - 1
                    /\ PropIdAt(prop_file, c.prop.location)
                         = PropIdAt(prop_file, d.prop.location)

\* C5: after any sequence of dense inserts every node version -- inserted
\* node or re-versioned neighbour -- has at most 20 neighbours
C5_NeighbourCap ==
    \A r \in DOMAIN nodes : Len(nodes[r].neighbors) <= NeighborCap

\* a node with a full list has been re-versioned for one more edge, and the
\* new version holds a full list too
C5_Witness ==
    \E r \in DOMAIN nodes :
        /\ Len(nodes[r].neighbors) = NeighborCap
        /\ \E e \in Range(nodes[r].versions) :
              Len(nodes[e.n].neighbors) = NeighborCap

\* C7: after insert(d, v, id) with v # 0 into the sparse index, get(d, id)
\* returns Some(quantize(v))
C7_SparseGetAfterInsert ==
    (sparse_last # None /\ sparse_last[2] # 0)
    => SparseGet(sparse_root, sparse_last[1], sparse_last[3])
         = <<quantize(sparse_last[2])>>

(***************************************************************************)
(* Properties of the LRU cache.                                            *)
(***************************************************************************)
\* the entry touched least recently, by insert, a get hit or get_or_insert
LeastRecent == {lru_hist.order[1]}

\* C8: in a sequential run an eviction over capacity removes exactly one
\* entry, the one touched least recently
C8_EvictsLeastRecent ==
    [][\A t \in Threads :
         (lru_pc[t] = "remove" /\ lru_pc'[t] # "remove" /\ ~lru_hist.overlapped)
         => DOMAIN lru_map \ DOMAIN lru_map' = LeastRecent]_vars

\* C9: when no call is in flight the map holds at most capacity entries plus
\* one for each inserter beyond the first that ever ran at once
C9_BoundedExcess ==
    (\A t \in Threads : lru_pc[t] = "idle")
    => Cardinality(DOMAIN lru_map)
         <= lru_capacity + Max2(lru_hist.inserters - 1, 0)

\* C10: of the calls of get_or_insert in flight at once for a key that was
\* absent, with no other call in flight beside them, one ran the factory,
\* the key has its entry and all have the value that run produced
C10_SingleMaterialization ==
    \A t1, t2 \in Threads :
        (/\ t1 # t2
         /\ lru_pc[t1] # "idle" /\ lru_pc[t2] # "idle"
         /\ lru_loc[t1].call = "get_or_insert" /\ lru_loc[t2].call = "get_or_insert"
         /\ lru_loc[t1].key = lru_loc[t2].key
         /\ ~lru_loc[t1].foreign /\ ~lru_loc[t2].foreign
         /\ lru_loc[t1].inserted)
        => /\ ~lru_loc[t2].inserted
           /\ lru_loc[t2].res = lru_loc[t1].res
           /\ lru_loc[t1].key \in DOMAIN lru_map

\* C11: when the factory of get_or_insert fails for an absent key the call
\* returns the error and the map is what it was before the call -- no entry
\* for the key, no eviction, the same keys -- up to the return of the call
C11_FactoryError ==
    [][\A t \in Threads :
         /\ (lru_pc[t] = "idle" /\ lru_loc'[t].err)
            => /\ lru_loc'[t].key \notin DOMAIN lru_map
               /\ lru_map' = lru_map
               /\ lru_loc'[t].res = None
               /\ lru_pc'[t] = "return"
         /\ (lru_loc[t].err /\ lru_pc'[t] # lru_pc[t])
            => /\ lru_pc[t] = "return"
               /\ lru_pc'[t] = "idle"
               /\ lru_map' = lru_map]_vars

\* a factory has failed on a cache that is full, where one more entry would
\* have led to an eviction
C11_Witness ==
    \E t \in Threads :
        /\ lru_loc[t].err
        /\ lru_pc[t] = "return"
        /\ Cardinality(DOMAIN lru_map) = lru_capacity

\* C12: get_or_insert on a present key runs no factory, returns the stored
\* value, gives the entry the stamp the counter stood at, changes nothing else
\* in the map and returns without an eviction
C12_HitKeepsEntry ==
    [][\A t \in Threads :
         /\ (/\ lru_pc[t] = "idle" /\ lru_pc'[t] # "idle"
             /\ lru_loc'[t].call = "get_or_insert"
             /\ lru_loc'[t].key \in DOMAIN lru_map)
            => /\ lru_hist'.factory_runs = lru_hist.factory_runs
               /\ ~lru_loc'[t].inserted
               /\ lru_loc'[t].res = <<lru_map[lru_loc'[t].key].v>>
               /\ lru_map' = [lru_map EXCEPT ![lru_loc'[t].key].counter = lru_counter]
               /\ lru_counter' = (lru_counter + 1) % CounterModulus
               /\ lru_pc'[t] = "return"
         /\ (/\ lru_loc[t].call = "get_or_insert" /\ ~lru_loc[t].inserted
             /\ lru_pc'[t] # lru_pc[t])
            => /\ lru_pc[t] = "return"
               /\ lru_pc'[t] = "idle"
               /\ lru_map' = lru_map]_vars

\* get_or_insert has hit an entry of a full cache
C12_Witness ==
    \E t \in Threads :
        /\ lru_loc[t].call = "get_or_insert"
        /\ ~lru_loc[t].inserted
        /\ lru_pc[t] = "return"
        /\ lru_loc[t].key \in DOMAIN lru_map
        /\ Cardinality(DOMAIN lru_map) = lru_capacity

\* C13: for all counter values g and s, counter_age(g, s) stays within the
\* width of the counter and is (g - s) modulo 2^width
C13_CounterAge ==
    (call.op = "counter_age" /\ result # None)
    => /\ result[1] \in 0..CounterMax
       /\ result[1] = (call.global_value - call.item_value) % CounterModulus

\* C16: serialize of an EmbeddingOffset is exactly 8 bytes and deserialize
\* gives the version and the offset back; deserialize of a byte string of
\* another length is an error
C16_OffsetRoundTrip ==
    /\ (call.op = "EmbeddingOffset" /\ result # None)
       => /\ Len(result[1].bytes) = 8
          /\ \A i \in 1..8 : result[1].bytes[i] \in 0..(ByteModulus - 1)
          /\ result[1].back.ok
          /\ result[1].back.version = call.x.version
          /\ result[1].back.offset = call.x.offset
    /\ (call.op = "deserialize" /\ result # None) => ~result[1].ok

\* an offset whose bytes differ from one another has been through the round
\* trip
C16_Witness ==
    /\ call.op = "EmbeddingOffset"
    /\ result # None
    /\ call.x.version = 1
    /\ call.x.offset = WordModulus - 2
    /\ result[1].back.ok

\* C14: read_embedding at the offset write_embedding returned yields the
\* embedding written, with its id and its raw vector
C14_EmbeddingRoundTrip ==
    (call.op = "write_embedding" /\ result # None)
    => /\ result[1].read.ok
       /\ result[1].read.emb = call.emb

\* C15: after e1..en are written to an empty log the reads from offset 0
\* on, each at the next of the one before, yield e1..en in this order; the
\* first write returned 0 and each other one the offset where the record
\* before it ends; the last next is the length of the file
C15_LogInOrder ==
    (call.op = "write_embeddings" /\ result # None)
    => LET n == Len(call.embeddings)
           r == result[1]
       IN /\ Len(r.starts) = n
          /\ Len(r.reads) = n
          /\ \A i \in 1..n :
                /\ r.reads[i].ok
                /\ r.reads[i].emb = call.embeddings[i]
                /\ r.starts[i] = IF i = 1 THEN 0
                                 ELSE r.starts[i - 1] + 4
                                      + Len(to_bytes(call.embeddings[i - 1]))
                /\ r.reads[i].next = IF i = n THEN r.size ELSE r.starts[i + 1]

\* C17: a fetch by an id inserted before answers with that id and the values
\* of the last insert made with it
C17_FetchLatest ==
    (fetched # None /\ fetched[1].vector_id \in DOMAIN latest)
    => /\ fetched[1].answer.ok
       /\ fetched[1].answer.id = fetched[1].vector_id
       /\ fetched[1].answer.values = latest[fetched[1].vector_id]

\* the sum of the powers of 4 of the child indices of a path
RECURSIVE SumOfPowers(_)
SumOfPowers(path) ==
    IF path = <<>> THEN 0 ELSE (4 ^ Head(path)) + SumOfPowers(Tail(path))

\* C18: for target >= current, calculate_path returns child indices that are
\* non-increasing, each the index of the largest power of 4 not exceeding what
\* remains of the difference, and whose powers of 4 sum to target - current
C18_PathDecomposition ==
    (call.op = "calculate_path" /\ result # None)
    => LET path == result[1]
           difference == call.target_dim_index - call.current_dim_index
           remaining(i) == difference - SumOfPowers(SubSeq(path, 1, i - 1))
       IN /\ \A i \in 1..(Len(path) - 1) : path[i] >= path[i + 1]
          /\ \A i \in 1..Len(path) :
                /\ 4 ^ path[i] <= remaining(i)
                /\ remaining(i) < 4 ^ (path[i] + 1)
          /\ SumOfPowers(path) = difference

\* C19: for 1 <= n within the table bound, largest_power_of_4_below(n) is
\* (i, p) with p = 4^i and p <= n < 4 * p
C19_LargestPower ==
    (call.op = "largest_power_of_4_below" /\ result # None /\ call.n < TableBound)
    => /\ result[1][2] = 4 ^ result[1][1]
       /\ result[1][2] <= call.n
       /\ call.n < 4 * result[1][2]

C19_Witness ==
    /\ call.op = "largest_power_of_4_below"
    /\ call.n = TableBound - 1
    /\ result = <<(<<7, 16384>>)>>

\* value * 63 rounded to the nearest integer, halves away from zero, and
\* clamped to 0..63
RoundedBucket(value) ==
    LET rounded == IF value >= 0
                   THEN ((2 * value * 63) + ValueDen) \div (2 * ValueDen)
                   ELSE 0 - (((2 * (0 - value) * 63) + ValueDen) \div (2 * ValueDen))
    IN IF rounded < 0 THEN 0 ELSE IF rounded > 63 THEN 63 ELSE rounded

\* C20: every sparse node has a posting list for each of the quantized values
\* 0..63, and the bucket quantize computes for an inserted value is
\* clamp(round(value * 63), 0, 63) and a posting list of the node, which holds
\* the inserted id afterwards
C20_BucketForEveryValue ==
    /\ \A at \in DOMAIN sparse_root : DOMAIN sparse_root[at].data = 0..63
    /\ sparse_last # None
       => LET q == quantize(sparse_last[2])
              at == calculate_path(sparse_last[1], sparse_root[<<>>].dim_index)
          IN /\ q = RoundedBucket(sparse_last[2])
             /\ q \in DOMAIN sparse_root[at].data
             /\ sparse_last[3] \in sparse_root[at].data[q]

(***************************************************************************)
(* Properties of the search and of the error responses.                    *)
(***************************************************************************)
\* C21: a similarity search with an empty query vector fails with
\* FailedToFindSimilarVectors("Vector shouldn't be empty"), whatever k and the
\* state of the collection, and returns no results
C21_EmptyQueryRefused ==
    (result # None /\ call.op = "find_similar_vectors" /\ call.vector = <<>>)
    => result[1] = [ok |-> FALSE, err |-> "FailedToFindSimilarVectors",
                    msg |-> "Vector shouldn't be empty"]

C21_Witness ==
    /\ result # None
    /\ call.op = "find_similar_vectors"
    /\ call.vector = <<>>
    /\ call.k = MaxK
    /\ KnownIds # {}

\* C22: the answer to a search with a non-empty vector has at most k entries,
\* in descending order of score, each with the id of a stored vector
C22_SearchResults ==
    (result # None /\ call.op = "find_similar_vectors" /\ call.vector # <<>>)
    => /\ result[1].ok
       /\ Len(result[1].similar) <= call.k
       /\ \A i \in 1..(Len(result[1].similar) - 1) :
             result[1].similar[i].score >= result[1].similar[i + 1].score
       /\ \A i \in 1..Len(result[1].similar) : result[1].similar[i].id \in KnownIds

\* C23: an error of the vectors API gets the HTTP status of its kind: 400 for
\* validation errors and conflicts with an ongoing transaction, 404 for
\* NotFound, 500 for storage and environment faults, 501 for NotImplemented
C23_StatusOfKind ==
    (result # None /\ call.op = "status_code")
    => result[1] = CASE call.error = "NotFound" -> 404
                     [] call.error = "NotImplemented" -> 501
                     [] call.error = "FailedToGetAppEnv" -> 500
                     [] OTHER -> 400

\* C24: the response to a successful create-collection request carries the
\* min_val and the max_val of the request, and the collection's id and name
C24_CollectionResponse ==
    (result # None /\ call.op = "create_collection" /\ result[1].ok)
    => /\ result[1].min_val = call.dto.min_val
       /\ result[1].max_val = call.dto.max_val
       /\ result[1].id = call.dto.name
       /\ result[1].name = call.dto.name

(***************************************************************************)
(* Properties of requests running in parallel.                             *)
(***************************************************************************)
\* C25: a commit leaves exec_queue empty, and under any interleaving with
\* inserts that push onto the queue no node leaves the queue without having
\* been persisted
C25_QueuedArePersisted ==
    [][/\ \A t \in Workers :
             (par_pc[t] = "update" /\ par_pc'[t] = "idle") => exec_queue' = <<>>
       /\ \A r \in Range(exec_queue) :
             r \notin Range(exec_queue') => nodes'[r].offset # NoOffset]_vars

\* C27: under any interleaving of bare creates with create-transaction
\* requests on the same index, no bare upload executes while a transaction of
\* the index is open
C27_NoUploadWhileOpen ==
    [][(uploads' > uploads /\ resp'.op \in BareWrites) => ~Open(resp'.index)]_vars

\* C28: whenever no index_embeddings call is under way, count_indexed +
\* count_unindexed is the number of embeddings inserted, count_indexed the
\* number of distinct embeddings of the log that have been indexed, and
\* count_unindexed has not gone below 0
C28_Counts ==
    (\A t \in Workers : par_pc[t] = "idle")
    => /\ MetaCount(metadata_db, "count_indexed")
          + MetaCount(metadata_db, "count_unindexed") = uploads
       /\ MetaCount(metadata_db, "count_indexed")
            = Cardinality(IndexedRecords)
       /\ MetaCount(metadata_db, "count_unindexed") <= uploads

\* the items node r has for version number vn: itself, and those of its chain
VersionsOf(r, vn) ==
    (IF nodes[r].version = vn THEN {r} ELSE {})
    \cup {e.n : e \in {x \in Range(nodes[r].versions) : x.v = vn}}

\* C26: when two inserts made under the same version have selected the same
\* existing node as a neighbour and both are complete, that node has exactly
\* one item for the version, and its edge list holds both new nodes
C26_BothEdgesKept ==
    \A i, j \in 1..Len(par_hist) :
        (/\ i < j
         /\ par_hist[i].version = par_hist[j].version
         /\ \A t \in Workers : par_pc[t] = "idle")
        => \A nbr \in par_hist[i].nbs \cap par_hist[j].nbs :
              /\ Cardinality(VersionsOf(nbr, par_hist[i].version)) = 1
              /\ \A item \in VersionsOf(nbr, par_hist[i].version) :
                    {par_hist[i].node, par_hist[j].node}
                      \subseteq {e.n : e \in Range(nodes[item].neighbors)}

\* a traverse_find_nearest call is under way
Traversing == par_pc[Traverser] = "traverse"

\* the hop budget of the call under way
HopBudget == tapered_total_hops(FullHops, par_loc[Traverser].cur_level, MaxCacheLevel)

\* every call that has begun returns
TraversalReturns == Traversing ~> ~Traversing

\* a call recurses into a neighbour only when the neighbour's id was not in
\* skipm and is added to it, and the call's hops are within the budget
RecursesOnFreshId ==
    [][(/\ Traversing
        /\ par_pc'[Traverser] = "traverse"
        /\ Len(par_loc'[Traverser].m.stack) > Len(par_loc[Traverser].m.stack))
       => LET m == par_loc[Traverser].m
              top == m.stack[Len(m.stack)]
              nb == IdOf(top.nbrs[top.index + 1].n)
          IN /\ nb \notin m.skipm
             /\ nb \in par_loc'[Traverser].m.skipm
             /\ top.hops <= HopBudget]_vars

\* the ids whose neighbours the calls of one traversal have looped over are
\* all different
Distinct(s) == \A i, j \in 1..Len(s) : i # j => s[i] # s[j]

NoIdExpandedTwice ==
    /\ Traversing => Distinct(par_loc[Traverser].expanded)
    /\ par_hist # None => Distinct(par_hist[1].expanded)

\* the calls in progress are one hop apart, and none but the outermost has
\* more hops than the budget plus one
DepthWithinBudget ==
    Traversing =>
       LET stack == par_loc[Traverser].m.stack
       IN \A i \in 1..Len(stack) :
             /\ stack[i].hops = stack[1].hops + i - 1
             /\ i > 1 => stack[i].hops <= HopBudget + 1

\* C29: traverse_find_nearest returns on every graph the uploads build, cycles
\* included; it recurses into a neighbour only when the neighbour's id is
\* newly added to skipm and the hops are within the tapered budget; no id is
\* expanded twice in one traversal; the depth of the recursion is bounded by
\* the budget
C29_TraversalTerminates ==
    /\ TraversalReturns
    /\ RecursesOnFreshId
    /\ []NoIdExpandedTwice
    /\ []DepthWithinBudget

\* the last traversal has returned a result
Traversed == par_hist # None /\ ~par_hist[1].err

\* the ids added to skipm by the last traversal: its candidates
Candidates == par_hist[1].skipm \ par_hist[1].skipm0

\* the metric of the vector of id c against the vector of the last traversal
MetricOfId(c) ==
    Metric(par_hist[1].fvec, (CHOOSE p \in Range(props) : p.id = c).value)

\* C30: a result of traverse_find_nearest has at most 5 entries, best metric
\* first, no two of one VectorId, none whose id was in skipm when the
\* traversal began; its entries are the 5 best of the candidates gathered by
\* the sub-traversals
C30_NearestFive ==
    Traversed =>
       LET nn == par_hist[1].nn
           ids == {IdOf(nn[i].n) : i \in 1..Len(nn)}
       IN /\ Len(nn) <= NearestCap
          /\ \A i, j \in 1..Len(nn) : i < j => nn[i].m >= nn[j].m
          /\ \A i, j \in 1..Len(nn) : i # j => IdOf(nn[i].n) # IdOf(nn[j].n)
          /\ ids \cap par_hist[1].skipm0 = {}
          /\ ids \subseteq Candidates
          /\ \A i \in 1..Len(nn) : nn[i].m = MetricOfId(IdOf(nn[i].n))
          /\ Len(nn) = Min2(NearestCap, Cardinality(Candidates))
          /\ \A c \in Candidates \ ids :
                \A i \in 1..Len(nn) : nn[i].m >= MetricOfId(c)

\* a traversal with more candidates than it returns, of different metrics,
\* one of those left out worse than all those returned
C30_Witness ==
    /\ Traversed
    /\ Len(par_hist[1].nn) = NearestCap
    /\ Cardinality(Candidates) > NearestCap
    /\ par_hist[1].nn[1].m > par_hist[1].nn[NearestCap].m
    /\ \E c \in Candidates : MetricOfId(c) < par_hist[1].nn[NearestCap].m

\* an insert of vector id into the dense index with drawn maximum level iv
DenseInsert(id, v, iv) ==
    /\ uploads' = uploads + 1
    /\ resp'.index = "dense"
    /\ \/ resp'.op = "create_dense" /\ create_dense_vector(id, v, iv)
       \/ resp'.op = "update" /\ update_vector(id, v, iv)
       \/ resp'.op = "upsert" /\ upsert(id, v, iv)

\* the nodes an insert has created for its vector: each has a prop of its own
\* (forks of neighbours share the prop of the node they fork)
CreatedNodes == {r \in DOMAIN nodes' \ DOMAIN nodes : nodes'[r].prop > Len(props)}

InsertingVersion ==
    IF resp'.op = "upsert" THEN current_open_transaction["dense"][1].version_number
    ELSE current_version["dense"].version

\* the edges the item t had before the insert: its own, or, when the insert
\* has forked it, those of the item it was forked from
PreviousEdges(t) ==
    IF t \in DOMAIN nodes THEN nodes[t].neighbors
    ELSE nodes[CHOOSE r \in DOMAIN nodes :
                  \E e \in Range(nodes'[r].versions) : e.n = t].neighbors

\* the previous edges of t and the new nodes the insert has wired to it
OfferedEdges(t) ==
    Range(PreviousEdges(t))
    \cup {[n |-> c, m |-> e.m] :
            <<c, e>> \in {x \in CreatedNodes \X UNION {Range(nodes'[c].neighbors) :
                                                        c \in CreatedNodes} :
                            x[2] \in Range(nodes'[x[1]].neighbors) /\ x[2].n = t}}

\* the items whose edges an insert has written
Rewired ==
    {t \in DOMAIN nodes' \ CreatedNodes :
        t \notin DOMAIN nodes \/ nodes'[t].neighbors # nodes[t].neighbors}

\* C32: every neighbour a new node is wired to is an item of the inserting
\* version that the new node lists with its metric; the neighbour's edge list
\* holds the 20 best of its previous edges and the new node, best first, so
\* the new node is in it unless 20 edges are at least as good
C32_EdgesAfterInsert ==
    [][(uploads' = uploads + 1 /\ resp'.index = "dense") =>
         /\ \A c \in CreatedNodes :
               /\ nodes'[c].neighbors # <<>>
               /\ \A e \in Range(nodes'[c].neighbors) :
                     LET list == nodes'[e.n].neighbors
                     IN /\ e.n \notin CreatedNodes
                        /\ nodes'[e.n].version = InsertingVersion
                        /\ e.m = Metric(props'[nodes'[c].prop].value,
                                        props'[nodes'[e.n].prop].value)
                        /\ Len(list) <= NeighborCap
                        /\ \A i, j \in 1..Len(list) : i < j => list[i].m >= list[j].m
                        /\ Range(list) \subseteq OfferedEdges(e.n)
                        /\ \A x \in OfferedEdges(e.n) \ Range(list) :
                              /\ Len(list) = NeighborCap
                              /\ \A i \in 1..Len(list) : list[i].m >= x.m
         /\ \A t \in Rewired :
               \E c \in CreatedNodes : \E e \in Range(nodes'[c].neighbors) : e.n = t]_vars

\* the last insert has wired its node to a neighbour whose list is full: one
\* with the new node in it, one from which the new node has been cut off
C32_Witness ==
    \E c \in DOMAIN nodes :
        /\ props[nodes[c].prop].id = uploads
        /\ \E e \in Range(nodes[c].neighbors) :
              /\ Len(nodes[e.n].neighbors) = NeighborCap
              /\ c \notin {x.n : x \in Range(nodes[e.n].neighbors)}
        /\ \E e \in Range(nodes[c].neighbors) :
              c \in {x.n : x \in Range(nodes[e.n].neighbors)}

\* the threads that have a node of the trie in hand, below the root
Holding == {t \in Workers : par_loc[t] # None /\ par_loc[t].at # <<>>}

\* the node a thread has in hand is the item that fills the slot of its path
HoldsSlotItem ==
    \A t \in Holding :
        par_loc[t].at \in DOMAIN par_hist /\ par_hist[par_loc[t].at] = par_loc[t].node

\* what a thread has written into a bucket is in the node of the trie at its
\* path, the node every thread on that path has in hand
WritesShared ==
    \A t \in Workers :
        (par_loc[t] # None /\ par_loc[t].written
           /\ quantize(par_loc[t].value) \in DOMAIN sparse_root[par_loc[t].at].data)
        => par_loc[t].vector_id
             \in sparse_root[par_loc[t].at].data[quantize(par_loc[t].value)]

C35_PlaceholdersFilled ==
    (call.op = "serialize_node" /\ result # None /\ result[1].ok) =>
       LET node == call.node
           r == result[1]
           parent_at == call.pos + 10
           child_at == parent_at + (IF node.parent # None THEN 8 ELSE 0)
           neighbors_at == child_at + (IF node.child # None THEN 8 ELSE 0)
       IN /\ node.parent # None =>
                /\ r.file[parent_at] = node.parent[1].offset
                /\ r.file[parent_at + 4] = node.parent[1].version
          /\ node.child # None =>
                /\ r.file[child_at] = node.child[1].offset
                /\ r.file[child_at + 4] = node.child[1].version
          /\ r.file[neighbors_at] = neighbors_at + 4
          /\ r.file[neighbors_at] # WordModulus - 1
          /\ r.file[call.pos + 9] % 2 = (IF node.parent # None THEN 1 ELSE 0)
          /\ (r.file[call.pos + 9] \div 2) % 2 = (IF node.child # None THEN 1 ELSE 0)
          /\ r.pos = neighbors_at + 8 + 12 * node.neighbors
          /\ \A p \in DOMAIN r.file : p < r.pos

(***************************************************************************)
(* Uploads on an index whose nodes are dropped from memory and loaded back *)
(* from the index file.                                                    *)
(***************************************************************************)
PendingErrors == {"Node prop is in pending state", "Neighbor prop is in pending state"}

\* get_data on a node that is no longer in memory: the node is read back
\* with MergedNode::deserialize at its file offset, which gives it a prop of
\* its own in state Pending at the location read from the header.  The id
\* and the value of the record are what prop.data holds at that location;
\* no code reads them while the state is Pending
load_node(r) ==
    /\ nodes[r].offset # NoOffset
    /\ props[nodes[r].prop].state = "Ready"
    /\ \E d \in {deserialize(index_file, nodes[r].offset)} :
         /\ props' = Append(props, [id |-> props[nodes[r].prop].id,
                                   value |-> props[nodes[r].prop].value,
                                   location |-> d.prop.location,
                                   state |-> d.prop.state])
         /\ nodes' = [nodes EXCEPT ![r].prop = Len(props) + 1]
    /\ Answer("load", "dense", TRUE, "", "", FALSE)
    /\ UNCHANGED <<prop_file, index_file, index_pos, root_vec, exec_queue,
                   current_version, current_open_transaction, uploads, budget,
                   txns, open_txns, refused, snap,
                   sparse_vars, lru_vars, call_vars>>

\* api_service.rs lines 193-201: the insert that index_embedding ends with
\* an error (vector_store.rs lines 568-575, 598, 630) fails the request; what
\* the levels above have inserted stays, nothing is committed
failed_upload(id, value, iv) ==
    /\ uploads < budget
    /\ ~Open("dense")
    /\ \E st \in {Indexed(DenseSt, id, value, iv, current_version["dense"].version)} :
         /\ st.err # ""
         /\ nodes' = st.nodes
         /\ props' = st.props
         /\ prop_file' = st.prop_file
         /\ exec_queue' = st.exec_queue
         /\ Answer("create_dense", "dense", FALSE, st.err, "Failed inserting embedding",
                   FALSE)
    /\ uploads' = uploads + 1
    /\ UNCHANGED <<index_file, index_pos, root_vec,
                   current_version, current_open_transaction, budget,
                   txns, open_txns, refused, snap,
                   sparse_vars, lru_vars, call_vars>>

InitReload == Init /\ lru_capacity = MaxLruCapacity

NextReload ==
    \/ \E v \in Values, iv \in Levels : create_dense_vector(FreshId, v, iv)
    \/ \E r \in DOMAIN nodes : load_node(r)
    \/ \E v \in Values, iv \in Levels : failed_upload(FreshId, v, iv)

SpecReload == InitReload /\ [][NextReload]_vars

\* an insert has read a prop that is Pending
ReadsPending == \E v \in Values, iv \in Levels :
    Indexed(DenseSt, FreshId, v, iv, current_version["dense"].version).err \in PendingErrors

\* C36: a Pending prop becomes Ready on its first read and a Ready prop never
\* goes back to Pending; so no insert that reaches a node loaded from the
\* index file fails on the Pending prop of that node
C36_PendingResolves ==
    /\ [](resp.err \notin PendingErrors)
    /\ [][\A p \in 1..Len(props) :
            /\ props[p].state = "Ready" => props'[p].state = "Ready"
            /\ (props[p].state = "Pending" /\ ReadsPending /\ uploads' = uploads + 1)
                  => props'[p].state = "Ready"]_vars

\* the skeleton nodes: the nodes of the prop written by init_vector_store
Skeleton == {r \in DOMAIN nodes : props[nodes[r].prop].id = SkeletonId}

\* C37: a dense index created with max_cache_level M has M + 1 skeleton
\* nodes, one per level 0..M; the parent of each is the skeleton node one
\* level above and its child the one a level below, the node of level 0 has
\* no child and the node of level M no parent; the root is the node of the
\* highest level
C37_SkeletonChain ==
    /\ Cardinality(Skeleton) = MaxCacheLevel + 1
    /\ \A l \in 0..MaxCacheLevel :
          Cardinality({r \in Skeleton : nodes[r].hnsw_level = l}) = 1
    /\ \A r \in Skeleton :
          /\ IF nodes[r].hnsw_level = MaxCacheLevel
             THEN nodes[r].parent = NoRef
             ELSE /\ nodes[r].parent \in Skeleton
                  /\ nodes[nodes[r].parent].hnsw_level = nodes[r].hnsw_level + 1
          /\ IF nodes[r].hnsw_level = 0
             THEN nodes[r].child = NoRef
             ELSE /\ nodes[r].child \in Skeleton
                  /\ nodes[nodes[r].child].hnsw_level = nodes[r].hnsw_level - 1
    /\ nodes[root_vec].hnsw_level = MaxCacheLevel

(***************************************************************************)
(* The LRU cache with EvictStrategy::Probabilistic, called by one thread.  *)
(* What rand gives is an input of a call.                                  *)
(***************************************************************************)
\* rng.gen(): 0 for a number below every probability other than 0, 1 for a
\* number that no probability exceeds
Gen == {0, 1}

\* lines 47-52: 1 - exp(-lambda * age) is 0 for the age 0 and above 0 for
\* every other age (1 stands for those values)
eviction_probability(global_counter, counter_value) ==
    IF counter_age(global_counter, counter_value) = 0 THEN 0 ELSE 1

\* lines 55-58, gen the number drawn
should_evict(global_counter, counter_value, gen) ==
    eviction_probability(global_counter, counter_value) > gen

\* the orders in which self.map.iter() may give the entries
IterOrders(map) ==
    {o \in [1..Cardinality(DOMAIN map) -> DOMAIN map] : Range(o) = DOMAIN map}

\* lines 178-187: the loop over the entries, left when num_evicted is above
\* num_to_evict
RECURSIVE EvictLoop(_, _, _, _, _, _)
EvictLoop(map, order, gens, global_counter, num_to_evict, num_evicted) ==
    IF order = <<>> \/ num_evicted > num_to_evict THEN map
    ELSE IF should_evict(global_counter, map[Head(order)].counter, gens[Head(order)])
    THEN EvictLoop([k \in DOMAIN map \ {Head(order)} |-> map[k]], Tail(order),
                   gens, global_counter, num_to_evict, num_evicted + 1)
    ELSE EvictLoop(map, Tail(order), gens, global_counter, num_to_evict, num_evicted)

\* lines 174-190
evict_lru_probabilistic(map, capacity, global_counter, order, gens) ==
    LET num_to_evict == Cardinality(DOMAIN map) - capacity
    IN IF num_to_evict > 0
       THEN EvictLoop(map, order, gens, global_counter, num_to_evict, 0)
       ELSE map

\* the thread that calls the cache
ProbCaller == CHOOSE t \in Threads : \A u \in Threads : t <= u

\* lines 107-110 and 136-147 with the Probabilistic strategy: the entry is
\* written with the stamp fetch_add returns; when the map is over capacity
\* and should_trigger says so, the eviction pass runs.  The locals kept are
\* the size of the map the pass found
prob_insert(k, trigger) ==
    /\ lru_hist.ops < MaxLruOps
    /\ \E m \in {(k :> [v |-> 0, counter |-> lru_counter]) @@ lru_map} :
         IF Cardinality(DOMAIN m) > lru_capacity /\ trigger
         THEN /\ \E order \in IterOrders(m), gens \in [DOMAIN m -> Gen] :
                    lru_map' = evict_lru_probabilistic(m, lru_capacity,
                                                       increment_counter, order, gens)
              /\ lru_loc' = [lru_loc EXCEPT ![ProbCaller] =
                                [NoCall EXCEPT !.call = "evict_lru_probabilistic",
                                               !.key = k,
                                               !.res = <<Cardinality(DOMAIN m)>>]]
         ELSE /\ lru_map' = m
              /\ lru_loc' = [lru_loc EXCEPT ![ProbCaller] =
                                [NoCall EXCEPT !.call = "insert", !.key = k]]
    /\ lru_counter' = increment_counter
    /\ lru_hist' = [lru_hist EXCEPT !.ops = @ + 1, !.keys = Max2(@, k)]
    /\ UNCHANGED <<lru_capacity, lru_pc, Others>>

NextProbabilistic ==
    \E k \in CallKeys, trigger \in BOOLEAN : prob_insert(k, trigger)

SpecProbabilistic == InitLRU /\ [][NextProbabilistic]_vars

\* C38: an eviction pass of the Probabilistic strategy removes no more
\* entries than the map has above the capacity: after a pass on a map of
\* more than capacity entries, with no other call running, the map has at
\* least capacity entries
C38_PassKeepsCapacity ==
    (/\ lru_loc[ProbCaller].call = "evict_lru_probabilistic"
     /\ lru_loc[ProbCaller].res[1] > lru_capacity)
       => Cardinality(DOMAIN lru_map) >= lru_capacity

\* C39: with the Immediate strategy and a capacity of 1 or more, the
\* eviction of an insert never removes the entry that insert has written,
\* whatever the value of the global counter, after it has wrapped to 0 too
\* (stated for the inserts that run alone)
C39_KeepsOwnEntry ==
    [][\A t \in Threads :
         (/\ lru_loc[t].call = "insert"
          /\ lru_pc[t] = "remove" /\ lru_pc'[t] # "remove"
          /\ ~lru_hist.overlapped
          /\ lru_capacity >= 1)
         => lru_loc[t].key \in DOMAIN lru_map']_vars

(***************************************************************************)
(* Inserts running in parallel with the auto-commit of another request.    *)
(***************************************************************************)
\* api_service.rs lines 229-235: a request whose inserts are over calls
\* auto_commit_transaction
commit_begin(t) ==
    /\ par_pc[t] = "idle"
    /\ uploads > 0
    /\ par_pc' = [par_pc EXCEPT ![t] = "get"]
    /\ UNCHANGED <<dense_vars, api_vars, par_loc, par_hist, ParRest>>

NextQueueRace ==
    \/ \E t \in Workers, v \in Values : edge_begin(t, v)
    \/ \E t \in Workers : edge_get_version(t)
    \/ \E t \in Workers : edge_target(t)
    \/ \E t \in Workers : edge_update(t)
    \/ \E t \in Workers : edge_queue(t)
    \/ create_transaction("dense")
    \/ \E t \in Workers : commit_begin(t)
    \/ \E t \in Workers : commit_get(t)
    \/ \E t \in Workers : commit_persist(t)
    \/ \E t \in Workers : commit_update(t)

SpecQueueRace == InitReload /\ [][NextQueueRace]_vars

\* the prop of node r is Pending, or Ready with its location set
LocationKnown(r) ==
    \/ props[nodes[r].prop].state = "Pending"
    \/ props[nodes[r].prop].location # None

\* C40: every node of exec_queue that a commit finds has a prop whose
\* location on disk is known, however the inserts running in parallel
\* interleave; so the commit persists them without the error "Ready
\* PropState with no location"
C40_QueuedHaveLocation ==
    [][\A t \in Workers :
         (par_pc[t] = "persist" /\ par_pc'[t] # "persist")
         => /\ \A r \in Range(par_loc[t]) : LocationKnown(r)
            /\ par_pc'[t] = "update"]_vars
====
